---- MODULE Spec2Model ----
(***************************************************************************)
(* OPTIMA: parts catalog, reminder notifications and role-based access.    *)
(*                                                                         *)
(* The model follows the "optima" generation of the application            *)
(* (src/src/optima): the login blueprint, the crud blueprint and the       *)
(* row store they share (parts.db: tables items and users).                *)
(*                                                                         *)
(* Text is a sequence of one-character strings, so that parsing            *)
(* (strptime, int) and substring tests are computed, not assumed.          *)
(* One action is one HTTP request: Flask's before_request hook, the        *)
(* decorators of the view and the view itself, run to completion.          *)
(***************************************************************************)
EXTENDS Integers, Sequences, FiniteSets, TLC

(***************************************************************************)
(* Bounds of the model.                                                    *)
(***************************************************************************)
\* AUTOINCREMENT of items stops here: at most this many parts are created.
MaxItemId == 2
\* AUTOINCREMENT of users stops here (the seeded rows included).
MaxUserId == 3
\* Rowids of aircraft and of aircraft_parts stop here.
MaxRegistryId == 2

(***************************************************************************)
(* Text.                                                                   *)
(***************************************************************************)
\* Python's None: a missing form key, a SQL NULL, a function without result.
\* As a text it is a sequence that is no sequence of characters.
None == <<"None">>
\* cursor.fetchone() without a row, a dict without keys: the empty function.
NoRow == [k \in {} |-> 0]

Digits == {"0", "1", "2", "3", "4", "5", "6", "7", "8", "9"}

DigitVal(c) ==
    CASE c = "0" -> 0 [] c = "1" -> 1 [] c = "2" -> 2 [] c = "3" -> 3
      [] c = "4" -> 4 [] c = "5" -> 5 [] c = "6" -> 6 [] c = "7" -> 7
      [] c = "8" -> 8 [] c = "9" -> 9

\* Python: bool(s) of a str or None ("if not part_number").
Truthy(s) == s # None /\ s # <<>>

\* Python: sub in s, for two str.
Contains(s, sub) ==
    \E i \in 1..(Len(s) - Len(sub) + 1) : SubSeq(s, i, i + Len(sub) - 1) = sub

RECURSIVE DigitsValue(_)
DigitsValue(s) ==
    IF s = <<>> THEN 0
    ELSE 10 * DigitsValue(SubSeq(s, 1, Len(s) - 1)) + DigitVal(s[Len(s)])

RECURSIVE Strip(_)
\* Python: str.strip() for the blank character.
Strip(s) ==
    IF s = <<>> THEN s
    ELSE IF s[1] = " " THEN Strip(Tail(s))
    ELSE IF s[Len(s)] = " " THEN Strip(SubSeq(s, 1, Len(s) - 1))
    ELSE s

\* The outcome of a call that may raise: exc = "" with the value returned,
\* or exc = the exception's class with val = its message.
Return(v) == [exc |-> "", val |-> v]
Raise(kind, msg) == [exc |-> kind, val |-> msg]
IsExc(r) == r.exc # ""

\* Python: int(s) for a str: blanks stripped, an optional sign, decimal
\* digits with single underscores between them; anything else is ValueError.
PyInt(s) ==
    LET t    == Strip(s)
        neg  == t # <<>> /\ t[1] = "-"
        body == IF t # <<>> /\ t[1] \in {"+", "-"} THEN Tail(t) ELSE t
        ok   == /\ body # <<>>
                /\ body[1] \in Digits
                /\ body[Len(body)] \in Digits
                /\ \A i \in 1..Len(body) : body[i] \in Digits \cup {"_"}
                /\ \A i \in 1..(Len(body) - 1) :
                       ~(body[i] = "_" /\ body[i + 1] = "_")
        v    == DigitsValue(SelectSeq(body, LAMBDA c : c \in Digits))
    IN  IF s = None THEN Raise("TypeError", "int() argument must be a string")
        ELSE IF ok THEN Return(IF neg THEN 0 - v ELSE v)
        ELSE Raise("ValueError", "invalid literal for int()")

(***************************************************************************)
(* Calendar dates (datetime.date) and datetime.strptime(s, "%Y-%m-%d").    *)
(***************************************************************************)
IsLeap(y) == (y % 4 = 0 /\ y % 100 # 0) \/ y % 400 = 0

DaysInMonth(y, m) ==
    IF m = 2 THEN (IF IsLeap(y) THEN 29 ELSE 28)
    ELSE IF m \in {4, 6, 9, 11} THEN 30 ELSE 31

RECURSIVE DaysBeforeMonth(_, _)
DaysBeforeMonth(y, m) ==
    IF m = 1 THEN 0 ELSE DaysBeforeMonth(y, m - 1) + DaysInMonth(y, m - 1)

\* date.toordinal(): the proleptic Gregorian ordinal, 0001-01-01 being day 1.
ToOrdinal(d) ==
    LET y1 == d.y - 1
    IN  y1 * 365 + (y1 \div 4) - (y1 \div 100) + (y1 \div 400)
          + DaysBeforeMonth(d.y, d.m) + d.d

\* The directive %m of strptime: 1[0-2] | 0[1-9] | [1-9].
MatchMonth(s) ==
    \/ Len(s) = 2 /\ s[1] = "1" /\ s[2] \in {"0", "1", "2"}
    \/ Len(s) = 2 /\ s[1] = "0" /\ s[2] \in Digits \ {"0"}
    \/ Len(s) = 1 /\ s[1] \in Digits \ {"0"}

\* The directive %d of strptime: 3[01] | [12]\d | 0[1-9] | [1-9] | " "[1-9].
MatchDay(s) ==
    \/ Len(s) = 2 /\ s[1] = "3" /\ s[2] \in {"0", "1"}
    \/ Len(s) = 2 /\ s[1] \in {"1", "2"} /\ s[2] \in Digits
    \/ Len(s) = 2 /\ s[1] \in {"0", " "} /\ s[2] \in Digits \ {"0"}
    \/ Len(s) = 1 /\ s[1] \in Digits \ {"0"}

\* datetime.strptime(s, "%Y-%m-%d").date(): %Y is exactly four digits, the
\* two dashes are literal, the whole text must match, and the fields must
\* name a day of the calendar (year >= 1, day <= length of the month).
Strptime(s) ==
    LET dashes == {i \in 1..Len(s) : s[i] = "-"}
        wellformed ==
            /\ Len(s) >= 8
            /\ \A i \in 1..4 : s[i] \in Digits
            /\ s[5] = "-"
            /\ \E j \in dashes : j > 5 /\ dashes = {5, j}
        j2 == CHOOSE j \in dashes : j > 5
        ms == SubSeq(s, 6, j2 - 1)
        ds == SubSeq(s, j2 + 1, Len(s))
        y  == DigitsValue(SubSeq(s, 1, 4))
        m  == DigitsValue(ms)
        d  == DigitsValue(Strip(ds))
    IN  IF ~wellformed \/ ~MatchMonth(ms) \/ ~MatchDay(ds)
        THEN Raise("ValueError", "time data does not match format")
        ELSE IF y < 1 \/ d > DaysInMonth(y, m)
        THEN Raise("ValueError", "day is out of range for month")
        ELSE Return([y |-> y, m |-> m, d |-> d])

(***************************************************************************)
(* Literals of the program.                                                *)
(***************************************************************************)
ADMIN == <<"a", "d", "m", "i", "n">>
USER  == <<"u", "s", "e", "r">>

\* Flask endpoints and the rule of their @route decorator.
LoginEndpoints ==
    {"login.login", "login.register", "login.logout", "login.home_user",
     "login.admin_dashboard"}
CrudEndpoints == {"crud.parts_list", "crud.create", "crud.update", "crud.delete"}

RoutePath(endpoint) ==
    CASE endpoint = "login.login"           -> <<"/">>
      [] endpoint = "login.register"        -> <<"/", "r", "e", "g", "i", "s", "t", "e", "r">>
      [] endpoint = "login.logout"          -> <<"/", "l", "o", "g", "o", "u", "t">>
      [] endpoint = "login.home_user"       -> <<"/", "h", "o", "m", "e", "_", "u", "s", "e", "r">>
      [] endpoint = "login.admin_dashboard" -> <<"/", "h", "o", "m", "e", "_", "a", "d", "m", "i", "n">>

MSG_LOGIN      == "You must log in to access this page."
MSG_PERMISSION == "You do not have permission to access this page."

\* A flashed message: flash(message, category); detail is the text an
\* f-string puts into the message ("" when the message is a literal).
Flash(message, category) == [message |-> message, category |-> category, detail |-> ""]
FlashF(message, detail, category) ==
    [message |-> message, category |-> category, detail |-> detail]

(***************************************************************************)
(* The session (a dict) and the request's form (a dict of texts).          *)
(***************************************************************************)
EmptySession == NoRow

\* dict.get(key) of the session for a text value.
SessionGet(sess, key) == IF key \in DOMAIN sess THEN sess[key] ELSE None

\* request.form.get(key) / request.form.get(key, default)
FormGet(form, key) == IF key \in DOMAIN form THEN form[key] ELSE None
FormGetDefault(form, key, default) ==
    IF key \in DOMAIN form THEN form[key] ELSE default

\* request.form[key]: a missing key raises (BadRequestKeyError, a KeyError).
FormItem(form, key) ==
    IF key \in DOMAIN form THEN Return(form[key])
    ELSE Raise("BadRequestKeyError", "400 Bad Request")

(***************************************************************************)
(* The row store: tables users and items of parts.db.                      *)
(***************************************************************************)
\* werkzeug's generate_password_hash / check_password_hash: a one-way,
\* injective tagging of the password; a password that is no str raises.
generate_password_hash(password) ==
    IF password = None
    THEN Raise("AttributeError", "'NoneType' object has no attribute 'encode'")
    ELSE Return([method |-> "pbkdf2:sha256", of |-> password])

check_password_hash(pwhash, password) ==
    IF password = None
    THEN Raise("AttributeError", "'NoneType' object has no attribute 'encode'")
    ELSE Return(pwhash = [method |-> "pbkdf2:sha256", of |-> password])

\* SELECT ... FROM users WHERE username = ?  (fetch_one): BINARY collation,
\* and NULL equals nothing.
SelectUser(users, username) ==
    LET hits == SelectSeq(users, LAMBDA r : username # None /\ r.username = username)
    IN  IF hits = <<>> THEN NoRow ELSE hits[1]

\* The INSERT into a users table whose username is not declared UNIQUE.
InsertUser_no_unique(users, userSeq, username, password, role) ==
    IF username = None \/ role = None
    THEN Raise("IntegrityError", "NOT NULL constraint failed")
    ELSE Return([users   |-> Append(users, [id |-> userSeq + 1, username |-> username,
                                            password |-> password, role |-> role]),
                 userSeq |-> userSeq + 1])

\* INSERT INTO users (username, password, role): id is AUTOINCREMENT,
\* username is NOT NULL UNIQUE, password and role are NOT NULL.
InsertUser(users, userSeq, username, password, role) ==
    IF username = None \/ role = None
    THEN Raise("IntegrityError", "NOT NULL constraint failed")
    ELSE IF \E i \in 1..Len(users) : users[i].username = username
    THEN Raise("IntegrityError", "UNIQUE constraint failed: users.username")
    ELSE Return([users   |-> Append(users, [id |-> userSeq + 1, username |-> username,
                                            password |-> password, role |-> role]),
                 userSeq |-> userSeq + 1])

(***************************************************************************)
(* login/auth_functions.py                                                 *)
(***************************************************************************)
\* login_user telling that the username is not stored.
login_user_telling(users, sess, username, password) ==
    LET user == SelectUser(users, username)
    IN  IF user = NoRow
        THEN [exc |-> "", ret |-> NoRow, session |-> sess,
              flashes |-> <<Flash("Unknown username.", "danger")>>]
        ELSE [exc |-> "", ret |-> NoRow, session |-> sess,
              flashes |-> <<Flash("Incorrect username or password.", "danger")>>]

\* login_user without the check of the password.
login_user_unchecked(users, sess, username, password) ==
    LET user == SelectUser(users, username)
    IN  IF user = NoRow
        THEN [exc |-> "", ret |-> NoRow, session |-> sess,
              flashes |-> <<Flash("Incorrect username or password.", "danger")>>]
        ELSE [exc     |-> "",
              ret     |-> [username |-> user.username, role |-> user.role],
              session |-> [user_id |-> user.id, username |-> user.username,
                           role |-> user.role],
              flashes |-> <<>>]

\* login_user(username, password): ret is the dict returned, or NoRow for
\* None; an exception of check_password_hash leaves the function.
login_user(users, sess, username, password) ==
    LET user    == SelectUser(users, username)
        checked == check_password_hash(user.password, password)
        failed  == [exc |-> "", ret |-> NoRow, session |-> sess,
                    flashes |-> <<Flash("Incorrect username or password.", "danger")>>]
    IN  IF user = NoRow THEN failed
        ELSE IF IsExc(checked)
        THEN [exc |-> checked.exc, ret |-> NoRow, session |-> sess, flashes |-> <<>>]
        ELSE IF checked.val
        THEN [exc     |-> "",
              ret     |-> [username |-> user.username, role |-> user.role],
              session |-> [k \in DOMAIN sess \cup {"user_id", "username", "role"} |->
                             IF k = "user_id" THEN user.id
                             ELSE IF k = "username" THEN user.username
                             ELSE IF k = "role" THEN user.role
                             ELSE sess[k]],
              flashes |-> <<>>]
        ELSE failed

\* register_user without the look-up of the username.
register_user_unchecked(users, userSeq, username, password, role) ==
    LET hashed   == generate_password_hash(password)
        inserted == InsertUser(users, userSeq, username, hashed.val, role)
        unchanged(exc) ==
            [exc |-> exc, ret |-> FALSE, users |-> users, userSeq |-> userSeq,
             flashes |-> <<>>]
    IN  IF IsExc(hashed) THEN unchanged(hashed.exc)
        ELSE IF IsExc(inserted) THEN unchanged(inserted.exc)
        ELSE [exc |-> "", ret |-> TRUE, users |-> inserted.val.users,
              userSeq |-> inserted.val.userSeq,
              flashes |-> <<Flash("User registered successfully.", "success")>>]

\* register_user(username, password, role): ret is the bool returned.
register_user(users, userSeq, username, password, role) ==
    LET existing_user == SelectUser(users, username)
        hashed        == generate_password_hash(password)
        inserted      == InsertUser(users, userSeq, username, hashed.val, role)
        unchanged(exc, ret, flashes) ==
            [exc |-> exc, ret |-> ret, users |-> users, userSeq |-> userSeq,
             flashes |-> flashes]
    IN  IF existing_user # NoRow
        THEN unchanged("", FALSE, <<Flash("The username is already registered.", "danger")>>)
        ELSE IF IsExc(hashed) THEN unchanged(hashed.exc, FALSE, <<>>)
        ELSE IF IsExc(inserted) THEN unchanged(inserted.exc, FALSE, <<>>)
        ELSE [exc |-> "", ret |-> TRUE, users |-> inserted.val.users,
              userSeq |-> inserted.val.userSeq,
              flashes |-> <<Flash("User registered successfully.", "success")>>]

(***************************************************************************)
(* The guards: before_request hooks and view decorators.                   *)
(***************************************************************************)
Pass == [deny |-> FALSE, flash |-> "", redirect |-> ""]
Deny(message, endpoint) == [deny |-> TRUE, flash |-> message, redirect |-> endpoint]

\* is_authenticated(): "user_id" in session
is_authenticated(sess) == "user_id" \in DOMAIN sess

\* @login_required
login_required(sess) ==
    IF ~is_authenticated(sess) THEN Deny(MSG_LOGIN, "login.login") ELSE Pass

\* A decorator that only asks whether the session carries a role at all.
role_required_any(role, sess) ==
    IF SessionGet(sess, "role") = None THEN Deny(MSG_PERMISSION, "login.login") ELSE Pass

\* @role_required(role)
role_required(role, sess) ==
    IF SessionGet(sess, "role") # role THEN Deny(MSG_PERMISSION, "login.login") ELSE Pass

\* The hook with the role asked before the login.
check_access_role_first(endpoint, sess) ==
    IF SessionGet(sess, "role") # ADMIN
    THEN Deny(MSG_PERMISSION, "login.home_user")
    ELSE IF "user_id" \notin DOMAIN sess \/ sess.user_id = 0
    THEN Deny(MSG_LOGIN, "login.login")
    ELSE Pass

\* crud_app.before_request: public_routes is empty; session.get("user_id")
\* is falsy when the key is absent or the id is 0.
check_access(endpoint, sess) ==
    IF endpoint \in {} THEN Pass
    ELSE IF "user_id" \notin DOMAIN sess \/ sess.user_id = 0
    THEN Deny(MSG_LOGIN, "login.login")
    ELSE IF SessionGet(sess, "role") # ADMIN
    THEN Deny(MSG_PERMISSION, "login.home_user")
    ELSE Pass

\* The hook sending a refused "user" page to the users' home page.
check_role_access_home(endpoint, path, sess) ==
    IF endpoint \in {"login.login", "login.register", "static"} THEN Pass
    ELSE IF ~is_authenticated(sess) THEN Deny(MSG_LOGIN, "login.login")
    ELSE IF Contains(path, ADMIN) /\ SessionGet(sess, "role") # ADMIN
    THEN Deny(MSG_PERMISSION, "login.home_user")
    ELSE IF Contains(path, USER) /\ SessionGet(sess, "role") # USER
    THEN Deny(MSG_PERMISSION, "login.home_user")
    ELSE Pass

\* login_bp.before_request
check_role_access(endpoint, path, sess) ==
    IF endpoint \in {"login.login", "login.register", "static"} THEN Pass
    ELSE IF ~is_authenticated(sess) THEN Deny(MSG_LOGIN, "login.login")
    ELSE IF Contains(path, ADMIN) /\ SessionGet(sess, "role") # ADMIN
    THEN Deny(MSG_PERMISSION, "login.home_user")
    ELSE IF Contains(path, USER) /\ SessionGet(sess, "role") # USER
    THEN Deny(MSG_PERMISSION, "login.login")
    ELSE Pass

\* The hook and the decorators run in order; the first that answers ends
\* the request.
FirstDeny(guards) ==
    LET denies == SelectSeq(guards, LAMBDA g : g.deny)
    IN  IF denies = <<>> THEN Pass ELSE denies[1]

\* A crud blueprint without hook and decorators.
crud_guard_open(endpoint, sess) == Pass

\* The guards in front of each view of the crud blueprint: the hook, then
\* @login_required, then @role_required("admin").
crud_guard(endpoint, sess) ==
    FirstDeny(<<check_access(endpoint, sess), login_required(sess),
                role_required(ADMIN, sess)>>)

\* The guards in front of each view of the login blueprint: the hook, then
\* the decorators the view carries.
login_guard(endpoint, sess) ==
    LET hook == check_role_access(endpoint, RoutePath(endpoint), sess)
    IN  CASE endpoint = "login.register" ->
               FirstDeny(<<hook, login_required(sess), role_required(ADMIN, sess)>>)
          [] endpoint = "login.home_user" ->
               FirstDeny(<<hook, login_required(sess), role_required(USER, sess)>>)
          [] endpoint = "login.admin_dashboard" ->
               FirstDeny(<<hook, login_required(sess), role_required(ADMIN, sess)>>)
          [] OTHER -> hook

(***************************************************************************)
(* Responses.                                                              *)
(***************************************************************************)
\* What a request ends in. view: whether the view function ran; status:
\* "redirect" (target an endpoint), "render" (target a template) or "error"
\* (an uncaught exception, target its class); ret: what the function of
\* auth_functions returned, as text; data: what the template is given;
\* error: the template variable "error" of the finder's page.
Response(view, status, target, flashes) ==
    [view |-> view, status |-> status, target |-> target, flashes |-> flashes,
     ret |-> "", data |-> <<>>, error |-> ""]

\* The answer of a guard that denies.
Denied(g) == Response(FALSE, "redirect", g.redirect, <<Flash(g.flash, "danger")>>)

(***************************************************************************)
(* crud/database.py                                                        *)
(***************************************************************************)
\* date - timedelta(days=1), as an ordinal: below date.min it raises.
MinusOneDay(d) ==
    IF ToOrdinal(d) - 1 < 1 THEN Raise("OverflowError", "date value out of range")
    ELSE Return(ToOrdinal(d) - 1)

Notification(item_name, message) ==
    [item_name |-> item_name, message |-> [text |-> message, item_name |-> item_name]]

\* The body of the loop of get_upcoming_notifications for one selected row:
\* the notifications it appends, or the exception that leaves the try
\* (ValueError is caught there and the row skipped).
NotificationsOfRow(row, today) ==
    LET parsed == Strptime(row.reminder_date)
        before == MinusOneDay(parsed.val)
    IN  IF ~Truthy(row.reminder_date) THEN Return(<<>>)
        ELSE IF IsExc(parsed) THEN Return(<<>>)
        ELSE IF IsExc(before) THEN before
        ELSE IF ToOrdinal(today) = before.val
        THEN Return(<<Notification(row.item_name, "Tomorrow is the reminder date for '{item_name}'.")>>)
        ELSE IF ToOrdinal(today) = ToOrdinal(parsed.val)
        THEN Return(<<Notification(row.item_name, "Today is the reminder date for '{item_name}'.")>>)
        ELSE Return(<<>>)

RECURSIVE NotificationsLoop(_, _)
NotificationsLoop(rows, today) ==
    IF rows = <<>> THEN Return(<<>>)
    ELSE LET first == NotificationsOfRow(rows[1], today)
             rest  == NotificationsLoop(Tail(rows), today)
         IN  IF IsExc(first) THEN first
             ELSE IF IsExc(rest) THEN rest
             ELSE Return(first.val \o rest.val)

\* get_upcoming_notifications(), today being datetime.now().date().
get_upcoming_notifications(items, today) ==
    NotificationsLoop(
        SelectSeq(items, LAMBDA r : r.reminder_date # None /\ r.notification_shown = 0),
        today)

\* The validation create_part and update_part share (the first lines of both).
ValidatePart(part_number, item_name, reminder_date) ==
    IF ~Truthy(part_number) \/ ~Truthy(item_name) \/ ~Truthy(reminder_date)
    THEN Raise("ValueError", "All fields are required.")
    ELSE IF IsExc(Strptime(reminder_date))
    THEN Raise("ValueError", "Reminder date must be in YYYY-MM-DD format.")
    ELSE Return(TRUE)

\* create_part on a table whose id is a plain INTEGER PRIMARY KEY: the new
\* id is the largest stored id plus one.
create_part_rowid(items, itemSeq, part_number, item_name, chapter, reminder_date) ==
    LET valid == ValidatePart(part_number, item_name, reminder_date)
        last  == IF items = <<>> THEN 0 ELSE items[Len(items)].id
    IN  IF IsExc(valid) THEN valid
        ELSE Return([items   |-> Append(items,
                                   [id |-> last + 1, part_number |-> part_number,
                                    item_name |-> item_name, chapter |-> chapter,
                                    reminder_date |-> reminder_date,
                                    notification_shown |-> 0]),
                     itemSeq |-> itemSeq + 1])

\* create_part binding the parameters of the INSERT in another order.
create_part_swapped(items, itemSeq, part_number, item_name, chapter, reminder_date) ==
    LET valid == ValidatePart(part_number, item_name, reminder_date)
    IN  IF IsExc(valid) THEN valid
        ELSE Return([items   |-> Append(items,
                                   [id |-> itemSeq + 1, part_number |-> item_name,
                                    item_name |-> part_number, chapter |-> chapter,
                                    reminder_date |-> reminder_date,
                                    notification_shown |-> 0]),
                     itemSeq |-> itemSeq + 1])

\* create_part: INSERT INTO items (part_number, item_name, chapter,
\* reminder_date); id is AUTOINCREMENT, notification_shown DEFAULT 0.
create_part(items, itemSeq, part_number, item_name, chapter, reminder_date) ==
    LET valid == ValidatePart(part_number, item_name, reminder_date)
    IN  IF IsExc(valid) THEN valid
        ELSE Return([items   |-> Append(items,
                                   [id |-> itemSeq + 1, part_number |-> part_number,
                                    item_name |-> item_name, chapter |-> chapter,
                                    reminder_date |-> reminder_date,
                                    notification_shown |-> 0]),
                     itemSeq |-> itemSeq + 1])

\* update_part writing the part_number and the item_name only.
update_part_partial(items, item_id, part_number, item_name, chapter, reminder_date) ==
    LET valid == ValidatePart(part_number, item_name, reminder_date)
    IN  IF IsExc(valid) THEN valid
        ELSE Return([i \in 1..Len(items) |->
                       IF items[i].id = item_id
                       THEN [items[i] EXCEPT !.part_number = part_number,
                                             !.item_name = item_name]
                       ELSE items[i]])

\* update_part without the validation of its arguments.
update_part_unvalidated(items, item_id, part_number, item_name, chapter, reminder_date) ==
    Return([i \in 1..Len(items) |->
              IF items[i].id = item_id
              THEN [items[i] EXCEPT !.part_number = part_number,
                                    !.item_name = item_name,
                                    !.chapter = chapter,
                                    !.reminder_date = reminder_date]
              ELSE items[i]])

\* update_part: UPDATE items SET part_number, item_name, chapter,
\* reminder_date WHERE id = ?
update_part(items, item_id, part_number, item_name, chapter, reminder_date) ==
    LET valid == ValidatePart(part_number, item_name, reminder_date)
    IN  IF IsExc(valid) THEN valid
        ELSE Return([i \in 1..Len(items) |->
                       IF items[i].id = item_id
                       THEN [items[i] EXCEPT !.part_number = part_number,
                                             !.item_name = item_name,
                                             !.chapter = chapter,
                                             !.reminder_date = reminder_date]
                       ELSE items[i]])

\* A DELETE that keeps the row asked for and removes the others.
delete_part_inverted(items, item_id) == SelectSeq(items, LAMBDA r : r.id = item_id)

\* DELETE FROM items WHERE id = ?
delete_part(items, item_id) == SelectSeq(items, LAMBDA r : r.id # item_id)

\* get_part_by_id: the dict of the row, or None.
get_part_by_id(items, item_id) ==
    LET rows == SelectSeq(items, LAMBDA r : r.id = item_id)
    IN  IF rows = <<>> THEN NoRow
        ELSE [id |-> rows[1].id, part_number |-> rows[1].part_number,
              item_name |-> rows[1].item_name, chapter |-> rows[1].chapter,
              reminder_date |-> rows[1].reminder_date]

(***************************************************************************)
(* crud/routes.py: the views. Each gives the response and the tables       *)
(* after the request.                                                      *)
(***************************************************************************)
\* The form handling create and update share: the four fields read with
\* request.form[...], chapter through int(), then the routes' own check.
ParsePartForm(form) ==
    LET pn == FormItem(form, "part_number")
        nm == FormItem(form, "item_name")
        cs == FormItem(form, "chapter")
        ch == PyInt(cs.val)
        rd == FormItem(form, "reminder_date")
    IN  IF IsExc(pn) THEN pn
        ELSE IF IsExc(nm) THEN nm
        ELSE IF IsExc(cs) THEN cs
        ELSE IF IsExc(ch) THEN ch
        ELSE IF IsExc(rd) THEN rd
        ELSE IF ~Truthy(pn.val) \/ ~Truthy(nm.val) \/ ~Truthy(rd.val)
        THEN Raise("ValueError", "All fields are required.")
        ELSE Return([part_number |-> pn.val, item_name |-> nm.val,
                     chapter |-> ch.val, reminder_date |-> rd.val])

\* parts_list(): get_parts() is the items table itself; data holds the
\* notifications. An exception of get_upcoming_notifications is not caught.
parts_list_view(items, today) ==
    LET notifications == get_upcoming_notifications(items, today)
    IN  IF IsExc(notifications)
        THEN Response(TRUE, "error", notifications.exc, <<>>)
        ELSE [Response(TRUE, "render", "admin_parts_list.html", <<>>)
                EXCEPT !.data = notifications.val]

\* create()
create_view(method, form, items, itemSeq) ==
    LET parsed  == ParsePartForm(form)
        f       == parsed.val
        created == create_part(items, itemSeq, f.part_number, f.item_name,
                               f.chapter, f.reminder_date)
        failed(e) ==
            [resp    |-> Response(TRUE, "render", "admin_create.html",
                                  <<FlashF("Error creating part: {e}", e.val, "danger")>>),
             items   |-> items,
             itemSeq |-> itemSeq]
    IN  IF method # "POST"
        THEN [resp |-> Response(TRUE, "render", "admin_create.html", <<>>),
              items |-> items, itemSeq |-> itemSeq]
        ELSE IF IsExc(parsed) THEN failed(parsed)
        ELSE IF IsExc(created) THEN failed(created)
        ELSE [resp    |-> Response(TRUE, "redirect", "crud.parts_list",
                                   <<Flash("Part created successfully.", "success")>>),
              items   |-> created.val.items,
              itemSeq |-> created.val.itemSeq]

\* update() without the look-up of the part: the form is handled first, as
\* in a view that trusts the id of the URL.
update_view_unchecked(method, item_id, form, items) ==
    LET parsed  == ParsePartForm(form)
        f       == parsed.val
        updated == update_part(items, item_id, f.part_number, f.item_name,
                               f.chapter, f.reminder_date)
        form_page(flashes) ==
            [resp  |-> [Response(TRUE, "render", "admin_update.html", flashes)
                          EXCEPT !.data = <<get_part_by_id(items, item_id)>>],
             items |-> items]
    IN  IF method # "POST" THEN form_page(<<>>)
        ELSE IF IsExc(parsed)
        THEN form_page(<<FlashF("Error updating part: {e}", parsed.val, "danger")>>)
        ELSE IF IsExc(updated)
        THEN form_page(<<FlashF("Error updating part: {e}", updated.val, "danger")>>)
        ELSE [resp  |-> Response(TRUE, "redirect", "crud.parts_list",
                                 <<Flash("Part updated successfully.", "success")>>),
              items |-> updated.val]

\* update(item_id)
update_view(method, item_id, form, items) ==
    LET item    == get_part_by_id(items, item_id)
        parsed  == ParsePartForm(form)
        f       == parsed.val
        updated == update_part(items, item_id, f.part_number, f.item_name,
                               f.chapter, f.reminder_date)
        form_page(flashes) ==
            [resp  |-> [Response(TRUE, "render", "admin_update.html", flashes)
                          EXCEPT !.data = <<item>>],
             items |-> items]
        failed(e) == form_page(<<FlashF("Error updating part: {e}", e.val, "danger")>>)
    IN  IF item = NoRow
        THEN [resp  |-> Response(TRUE, "redirect", "crud.parts_list",
                                 <<Flash("Item with ID {item_id} not found.", "danger")>>),
              items |-> items]
        ELSE IF method # "POST" THEN form_page(<<>>)
        ELSE IF IsExc(parsed) THEN failed(parsed)
        ELSE IF IsExc(updated) THEN failed(updated)
        ELSE [resp  |-> Response(TRUE, "redirect", "crud.parts_list",
                                 <<Flash("Part updated successfully.", "success")>>),
              items |-> updated.val]

\* delete(item_id): the DELETE is issued by the route itself.
delete_view(item_id, items) ==
    [resp  |-> Response(TRUE, "redirect", "crud.parts_list",
                        <<Flash("Part deleted successfully.", "success")>>),
     items |-> delete_part(items, item_id)]

(***************************************************************************)
(* login/auth_blueprint.py: the views.                                     *)
(***************************************************************************)
\* session.permanent = True
SetPermanent(sess) ==
    [k \in DOMAIN sess \cup {"_permanent"} |-> IF k = "_permanent" THEN TRUE ELSE sess[k]]

\* login()
login_view(method, form, users, sess) ==
    LET r == login_user(users, sess, FormGet(form, "username"), FormGet(form, "password"))
        role == r.ret.role
        page == Response(TRUE, "render", "index.html", <<>>)
    IN  IF method # "POST" THEN [resp |-> page, session |-> sess]
        ELSE IF IsExc(r)
        THEN [resp |-> Response(TRUE, "error", r.exc, r.flashes), session |-> r.session]
        ELSE IF r.ret = NoRow
        THEN [resp |-> [page EXCEPT !.flashes = r.flashes, !.ret = "None"],
              session |-> r.session]
        ELSE [resp |->
                [(IF role = USER
                  THEN Response(TRUE, "redirect", "login.home_user", r.flashes)
                  ELSE IF role = ADMIN
                  THEN Response(TRUE, "redirect", "login.admin_dashboard", r.flashes)
                  ELSE Response(TRUE, "redirect", "login.login",
                                r.flashes \o <<Flash("Unknown role. Please contact the administrator.", "danger")>>))
                 EXCEPT !.ret = "dict"],
              session |-> SetPermanent(r.session)]

\* register()
register_view(method, form, users, userSeq) ==
    LET r == register_user(users, userSeq, FormGet(form, "username"),
                           FormGet(form, "password"), FormGetDefault(form, "role", USER))
    IN  IF method # "POST"
        THEN [resp |-> Response(TRUE, "render", "register.html", <<>>),
              users |-> users, userSeq |-> userSeq]
        ELSE IF IsExc(r)
        THEN [resp |-> Response(TRUE, "error", r.exc, r.flashes),
              users |-> r.users, userSeq |-> r.userSeq]
        ELSE IF r.ret
        THEN [resp |-> [Response(TRUE, "redirect", "login.login",
                                 r.flashes \o <<Flash("User registered successfully.", "success")>>)
                          EXCEPT !.ret = "True"],
              users |-> r.users, userSeq |-> r.userSeq]
        ELSE [resp |-> [Response(TRUE, "render", "register.html",
                                 r.flashes \o <<Flash("An error occurred while registering the user.", "danger")>>)
                          EXCEPT !.ret = "False"],
              users |-> r.users, userSeq |-> r.userSeq]

\* logout(): session.clear(), for GET and for POST alike.
logout_view(sess) ==
    [resp |-> Response(TRUE, "redirect", "login.login",
                       <<Flash("You have been logged out successfully.", "info")>>),
     session |-> EmptySession]

(***************************************************************************)
(* finder/database.py and finder/routes.py: the search of the catalog.     *)
(***************************************************************************)
UpperCase ==
    <<"A", "B", "C", "D", "E", "F", "G", "H", "I", "J", "K", "L", "M",
      "N", "O", "P", "Q", "R", "S", "T", "U", "V", "W", "X", "Y", "Z">>
LowerCase ==
    <<"a", "b", "c", "d", "e", "f", "g", "h", "i", "j", "k", "l", "m",
      "n", "o", "p", "q", "r", "s", "t", "u", "v", "w", "x", "y", "z">>

\* SQLite folds the 26 ASCII letters when LIKE compares two characters.
FoldCase(c) ==
    IF \E i \in 1..26 : UpperCase[i] = c
    THEN LowerCase[CHOOSE i \in 1..26 : UpperCase[i] = c]
    ELSE c

RECURSIVE Like(_, _)
\* SQLite: text LIKE pattern, without ESCAPE: "%" stands for any run of
\* characters, "_" for any one character, a letter for itself in either
\* case.
Like(pattern, text) ==
    IF pattern = <<>> THEN text = <<>>
    ELSE IF pattern[1] = "%"
    THEN \/ Like(Tail(pattern), text)
         \/ text # <<>> /\ Like(pattern, Tail(text))
    ELSE /\ text # <<>>
         /\ pattern[1] = "_" \/ FoldCase(pattern[1]) = FoldCase(text[1])
         /\ Like(Tail(pattern), Tail(text))

MS35265_63 == <<"M", "S", "3", "5", "2", "6", "5", "-", "6", "3">>
P_91_27_18 == <<"9", "1", "-", "2", "7", "-", "1", "8">>
P_92_11_6  == <<"9", "2", "-", "1", "1", "-", "6">>
SCREW      == <<"S", "C", "R", "E", "W">>
WASHER     == <<"W", "A", "S", "H", "E", "R">>

\* The table Parts of parts.db: the catalog the finder reads. No statement
\* of the application writes it; the script Ingresar_datos.py fills it
\* (item names are cut to their first word here).
PartsTable ==
    <<[id |-> 1, index_number |-> 1, part_number |-> MS35265_63, item_name |-> SCREW],
      [id |-> 2, index_number |-> 1, part_number |-> P_91_27_18, item_name |-> SCREW],
      [id |-> 3, index_number |-> 2, part_number |-> P_92_11_6, item_name |-> WASHER]>>

\* search_parts(finder): SELECT * FROM Parts WHERE part_number LIKE ? OR
\* item_name LIKE ?, both parameters being "%" + finder + "%". failure: the
\* store refuses the statement (sqlite3.OperationalError) and execute raises.
search_parts(finder, failure) ==
    LET pattern == <<"%">> \o finder \o <<"%">>
    IN  IF failure THEN Raise("OperationalError", "database is locked")
        ELSE Return(SelectSeq(PartsTable,
                        LAMBDA r : Like(pattern, r.part_number) \/ Like(pattern, r.item_name)))

\* The decorators of the finder's view: @login_required, then
\* @role_required("admin"); the blueprint has no before_request hook.
finder_guard(sess) ==
    FirstDeny(<<login_required(sess), role_required(ADMIN, sess)>>)

\* index() of the finder
index_view(method, form, failure) ==
    LET finder  == Strip(FormGetDefault(form, "finder", <<>>))
        results == search_parts(finder, failure)
        page    == Response(TRUE, "render", "admin_finder.html", <<>>)
    IN  IF method # "POST" THEN page
        ELSE IF ~Truthy(finder)
        THEN [page EXCEPT !.error = "The search field cannot be empty."]
        ELSE IF IsExc(results)
        THEN [page EXCEPT !.error = "An error occurred during the search. Please try again."]
        ELSE IF results.val = <<>>
        THEN [page EXCEPT !.error = "No results found for your search."]
        ELSE [page EXCEPT !.data = results.val]

(***************************************************************************)
(* mro/aircraft_functions.py: the registry of aircraft and their parts.    *)
(* The statements go through db_manager of crud/database.py. The CREATE    *)
(* TABLE of aircraft and aircraft_parts is not in the tree: ids are taken  *)
(* as rowids and no constraint is taken on the columns. The columns an     *)
(* INSERT fills with a fixed default (status, hours, cycles, ...) are left *)
(* out of the rows.                                                        *)
(***************************************************************************)
\* The rowid SQLite gives to a new row: one more than the largest in use.
NextRowId(rows) ==
    IF rows = <<>> THEN 1
    ELSE 1 + (CHOOSE m \in {rows[i].id : i \in 1..Len(rows)} :
                 \A i \in 1..Len(rows) : rows[i].id <= m)

\* register_aircraft(...): ret is the bool returned.
register_aircraft(rows, model, registration, year_of_manufacture, manufacturer, passenger_capacity) ==
    LET existing_aircraft ==
            SelectSeq(rows, LAMBDA r : registration # None /\ r.registration = registration)
    IN  IF existing_aircraft # <<>> THEN [ret |-> FALSE, aircraft |-> rows]
        ELSE [ret      |-> TRUE,
              aircraft |-> Append(rows,
                  [id |-> NextRowId(rows), model |-> model,
                   registration |-> registration,
                   year_of_manufacture |-> year_of_manufacture,
                   manufacturer |-> manufacturer,
                   passenger_capacity |-> passenger_capacity])]

\* get_aircraft_by_id(aircraft_id): the dict of the row, or None.
get_aircraft_by_id(rows, aircraft_id) ==
    LET result == SelectSeq(rows, LAMBDA r : r.id = aircraft_id)
    IN  IF result = <<>> THEN NoRow ELSE result[1]

\* delete_aircraft_by_id(aircraft_id): DELETE FROM aircraft WHERE id = ?
delete_aircraft_by_id(rows, aircraft_id) ==
    [ret |-> TRUE, aircraft |-> SelectSeq(rows, LAMBDA r : r.id # aircraft_id)]

\* update_aircraft(...): UPDATE aircraft SET ... WHERE id = ?
update_aircraft(rows, aircraft_id, model, registration, year_of_manufacture, manufacturer, passenger_capacity) ==
    [ret      |-> TRUE,
     aircraft |-> [i \in 1..Len(rows) |->
                     IF rows[i].id = aircraft_id
                     THEN [rows[i] EXCEPT !.model = model,
                                          !.registration = registration,
                                          !.year_of_manufacture = year_of_manufacture,
                                          !.manufacturer = manufacturer,
                                          !.passenger_capacity = passenger_capacity]
                     ELSE rows[i]]]

\* create_part(part_name, part_number, aircraft_id) of aircraft_functions
aircraft_create_part(parts, part_name, part_number, aircraft_id) ==
    LET existing_part ==
            SelectSeq(parts, LAMBDA r : part_number # None /\ r.part_number = part_number)
    IN  IF existing_part # <<>> THEN [ret |-> FALSE, aircraft_parts |-> parts]
        ELSE [ret            |-> TRUE,
              aircraft_parts |-> Append(parts,
                  [id |-> NextRowId(parts), part_name |-> part_name,
                   part_number |-> part_number, aircraft_id |-> aircraft_id,
                   total_flight_hours |-> 0])]

\* get_parts_by_aircraft_id(aircraft_id)
get_parts_by_aircraft_id(parts, aircraft_id) ==
    SelectSeq(parts, LAMBDA r : r.aircraft_id = aircraft_id)

\* delete_part_by_id(part_id): DELETE FROM aircraft_parts WHERE id = ?
delete_part_by_id(parts, part_id) ==
    [ret |-> TRUE, aircraft_parts |-> SelectSeq(parts, LAMBDA r : r.id # part_id)]

(***************************************************************************)
(* mro/mro_blueprint.py: the views. Each gives the response and the two    *)
(* tables after the request.                                               *)
(***************************************************************************)
\* The blueprint registers no before_request hook and its views carry no
\* decorator: nothing stands in front of a view.
mro_guard(endpoint, sess) == Pass

\* datetime.now().year
CurrentYear == 2025

\* int(passenger_capacity) if passenger_capacity else None. The value of
\* this nullable column is written <<n>> for the integer n and <<>> for None.
OptionalInt(s) ==
    IF ~Truthy(s) THEN Return(<<>>)
    ELSE IF IsExc(PyInt(s)) THEN PyInt(s)
    ELSE Return(<<PyInt(s).val>>)

\* aircraft()
aircraft_view(method, form, rows) ==
    LET year == PyInt(FormGet(form, "year_of_manufacture"))
        cap  == OptionalInt(FormGet(form, "passenger_capacity"))
        r    == register_aircraft(rows, FormGet(form, "model"),
                                  FormGet(form, "registration"), year.val,
                                  FormGet(form, "manufacturer"), cap.val)
        back(flashes, after) ==
            [resp |-> Response(TRUE, "redirect", "mro.aircraft", flashes),
             aircraft |-> after]
    IN  IF method # "POST"
        THEN [resp |-> [Response(TRUE, "render", "aircraft.html", <<>>) EXCEPT !.data = rows],
              aircraft |-> rows]
        ELSE IF IsExc(year)
        THEN back(<<FlashF("Unexpected error: {e}", year.val, "danger")>>, rows)
        ELSE IF IsExc(cap)
        THEN back(<<FlashF("Unexpected error: {e}", cap.val, "danger")>>, rows)
        ELSE IF r.ret
        THEN back(<<Flash("Aircraft registered successfully.", "success")>>, r.aircraft)
        ELSE back(<<Flash("Error registering the aircraft.", "danger")>>, r.aircraft)

\* edit_aircraft(aircraft_id)
edit_aircraft_view(method, aircraft_id, form, rows) ==
    LET found == get_aircraft_by_id(rows, aircraft_id)
        year  == PyInt(FormGet(form, "year_of_manufacture"))
        cap   == OptionalInt(FormGet(form, "passenger_capacity"))
        r     == update_aircraft(rows, aircraft_id, FormGet(form, "model"),
                                 FormGet(form, "registration"), year.val,
                                 FormGet(form, "manufacturer"), cap.val)
        page(flashes) ==
            [resp |-> [Response(TRUE, "render", "edit_aircraft.html", flashes)
                         EXCEPT !.data = <<found>>],
             aircraft |-> rows]
        unexpected == Flash("An unexpected error occurred. Please try again later.", "danger")
    IN  IF found = NoRow
        THEN [resp |-> Response(TRUE, "redirect", "mro.aircraft",
                                <<Flash("The aircraft does not exist.", "danger")>>),
              aircraft |-> rows]
        ELSE IF method # "POST" THEN page(<<>>)
        ELSE IF IsExc(year) THEN page(<<unexpected>>)
        ELSE IF year.val > CurrentYear
        THEN page(<<Flash("The year of manufacture cannot be greater than the current year.", "danger")>>)
        ELSE IF IsExc(cap) THEN page(<<unexpected>>)
        ELSE [resp |-> Response(TRUE, "redirect", "mro.aircraft",
                                <<Flash("Aircraft updated successfully.", "success")>>),
              aircraft |-> r.aircraft]

\* delete_aircraft(aircraft_id)
delete_aircraft_view(aircraft_id, rows) ==
    [resp |-> Response(TRUE, "redirect", "mro.aircraft",
                       <<Flash("Aircraft deleted successfully.", "success")>>),
     aircraft |-> delete_aircraft_by_id(rows, aircraft_id).aircraft]

\* aircraft_parts(aircraft_id)
aircraft_parts_view(method, aircraft_id, form, rows, parts) ==
    LET found == get_aircraft_by_id(rows, aircraft_id)
        name  == FormItem(form, "part_name")
        num   == FormItem(form, "part_number")
        r     == aircraft_create_part(parts, name.val, num.val, aircraft_id)
        back(flashes, after) ==
            [resp |-> Response(TRUE, "redirect", "mro.aircraft_parts", flashes),
             aircraft_parts |-> after]
    IN  IF found = NoRow
        THEN [resp |-> Response(TRUE, "redirect", "mro.aircraft",
                                <<Flash("The aircraft does not exist.", "danger")>>),
              aircraft_parts |-> parts]
        ELSE IF method # "POST"
        THEN [resp |-> [Response(TRUE, "render", "aircraft_parts.html", <<>>)
                          EXCEPT !.data = get_parts_by_aircraft_id(parts, aircraft_id)],
              aircraft_parts |-> parts]
        ELSE IF IsExc(name)
        THEN back(<<FlashF("Unexpected error: {e}", name.val, "danger")>>, parts)
        ELSE IF IsExc(num)
        THEN back(<<FlashF("Unexpected error: {e}", num.val, "danger")>>, parts)
        ELSE IF r.ret
        THEN back(<<Flash("Part registered successfully.", "success")>>, r.aircraft_parts)
        ELSE back(<<Flash("Error registering the part.", "danger")>>, r.aircraft_parts)

\* delete_part(part_id) of the mro blueprint
mro_delete_part_view(part_id, parts) ==
    [resp |-> Response(TRUE, "redirect", "request.referrer",
                       <<Flash("Part deleted successfully.", "success")>>),
     aircraft_parts |-> delete_part_by_id(parts, part_id).aircraft_parts]

(***************************************************************************)
(* CRUD/crud.py: the crud blueprint that run.py serves. It keeps its own   *)
(* table items (in active_parts.db), has no login and no validation.       *)
(***************************************************************************)
\* The body of the loop of get_upcoming_notifications of CRUD/crud.py for
\* one selected row: strptime is applied to every selected date, outside
\* of any try.
legacy_NotificationsOfRow(row, today) ==
    LET parsed == Strptime(row.reminder_date)
        before == MinusOneDay(parsed.val)
    IN  IF IsExc(parsed) THEN parsed
        ELSE IF IsExc(before) THEN before
        ELSE IF ToOrdinal(today) = before.val
        THEN Return(<<Notification(row.item_name, "Tomorrow is the reminder date for '{item_name}'.")>>)
        ELSE IF ToOrdinal(today) = ToOrdinal(parsed.val)
        THEN Return(<<Notification(row.item_name, "Today is the reminder date for '{item_name}'.")>>)
        ELSE Return(<<>>)

RECURSIVE legacy_NotificationsLoop(_, _)
legacy_NotificationsLoop(rows, today) ==
    IF rows = <<>> THEN Return(<<>>)
    ELSE LET first == legacy_NotificationsOfRow(rows[1], today)
             rest  == legacy_NotificationsLoop(Tail(rows), today)
         IN  IF IsExc(first) THEN first
             ELSE IF IsExc(rest) THEN rest
             ELSE Return(first.val \o rest.val)

\* get_upcoming_notifications() of CRUD/crud.py
legacy_get_upcoming_notifications(rows, today) ==
    legacy_NotificationsLoop(
        SelectSeq(rows, LAMBDA r : r.reminder_date # None /\ r.notification_shown = 0),
        today)

\* parts_list() of CRUD/crud.py
legacy_parts_list_view(rows, today) ==
    LET notifications == legacy_get_upcoming_notifications(rows, today)
    IN  IF IsExc(notifications)
        THEN Response(TRUE, "error", notifications.exc, <<>>)
        ELSE [Response(TRUE, "render", "parts_list.html", <<>>)
                EXCEPT !.data = notifications.val]

\* The four fields create and update of CRUD/crud.py read, chapter through
\* int(); nothing else is checked.
legacy_ParseForm(form) ==
    LET pn == FormItem(form, "part_number")
        nm == FormItem(form, "item_name")
        cs == FormItem(form, "chapter")
        ch == PyInt(cs.val)
        rd == FormItem(form, "reminder_date")
    IN  IF IsExc(pn) THEN pn
        ELSE IF IsExc(nm) THEN nm
        ELSE IF IsExc(cs) THEN cs
        ELSE IF IsExc(ch) THEN ch
        ELSE IF IsExc(rd) THEN rd
        ELSE Return([part_number |-> pn.val, item_name |-> nm.val,
                     chapter |-> ch.val, reminder_date |-> rd.val])

\* create() of CRUD/crud.py
legacy_create_view(method, form, rows, seq) ==
    LET parsed == legacy_ParseForm(form)
        f      == parsed.val
    IN  IF method # "POST"
        THEN [resp |-> Response(TRUE, "render", "create.html", <<>>),
              items |-> rows, itemSeq |-> seq]
        ELSE IF IsExc(parsed)
        THEN [resp |-> Response(TRUE, "error", parsed.exc, <<>>),
              items |-> rows, itemSeq |-> seq]
        ELSE [resp    |-> Response(TRUE, "redirect", "crud.parts_list", <<>>),
              items   |-> Append(rows,
                            [id |-> seq + 1, part_number |-> f.part_number,
                             item_name |-> f.item_name, chapter |-> f.chapter,
                             reminder_date |-> f.reminder_date,
                             notification_shown |-> 0]),
              itemSeq |-> seq + 1]

\* update(item_id) of CRUD/crud.py
legacy_update_view(method, item_id, form, rows) ==
    LET parsed == legacy_ParseForm(form)
        f      == parsed.val
        item   == get_part_by_id(rows, item_id)
    IN  IF method = "POST"
        THEN IF IsExc(parsed)
             THEN [resp |-> Response(TRUE, "error", parsed.exc, <<>>), items |-> rows]
             ELSE [resp  |-> Response(TRUE, "redirect", "crud.parts_list", <<>>),
                   items |-> [i \in 1..Len(rows) |->
                                IF rows[i].id = item_id
                                THEN [rows[i] EXCEPT !.part_number = f.part_number,
                                                     !.item_name = f.item_name,
                                                     !.chapter = f.chapter,
                                                     !.reminder_date = f.reminder_date,
                                                     !.notification_shown = 0]
                                ELSE rows[i]]]
        ELSE IF item = NoRow
        THEN [resp |-> Response(TRUE, "404", "Item with ID {item_id} not found", <<>>),
              items |-> rows]
        ELSE [resp  |-> [Response(TRUE, "render", "update.html", <<>>) EXCEPT !.data = <<item>>],
              items |-> rows]

\* delete(item_id) of CRUD/crud.py
legacy_delete_view(item_id, rows) ==
    [resp  |-> Response(TRUE, "redirect", "crud.parts_list", <<>>),
     items |-> SelectSeq(rows, LAMBDA r : r.id # item_id)]

(***************************************************************************)
(* Connections. Each store operation opens its own connection; what        *)
(* follows is the operations a view performs, and for each whether the     *)
(* connection is closed when the operation has returned or raised.         *)
(***************************************************************************)
\* One store operation: which code opened the connection, and whether the
\* statement raised.
StoreOp(by, raised) == [by |-> by, raised |-> raised]

\* Whether the operation calls close() on its connection before it ends.
\*  - DatabaseManager.execute_query: get_connection closes in "finally";
\*  - get_part_by_id and the delete route: "with sqlite3.connect(...)" commits
\*    or rolls back on exit and does not close;
\*  - search_parts: conn.close() follows fetchall() and is skipped when
\*    execute raises;
\*  - CRUD/crud.py: "with sqlite3.connect(...)" throughout.
Closes(op) ==
    CASE op.by = "execute_query"  -> TRUE
      [] op.by = "get_part_by_id" -> FALSE
      [] op.by = "crud.delete"    -> FALSE
      [] op.by = "search_parts"   -> ~op.raised
      [] op.by = "CRUD/crud.py"   -> FALSE

\* The connections a sequence of store operations leaves open.
Unclosed(ops) == SelectSeq(ops, LAMBDA op : ~Closes(op))

\* login(): login_user's SELECT.
login_ops(method) ==
    IF method = "POST" THEN <<StoreOp("execute_query", FALSE)>> ELSE <<>>

\* register(): register_user's SELECT and, for a new username with a
\* password that can be hashed, its INSERT.
register_ops(method, form, users) ==
    LET username == FormGet(form, "username")
        select   == <<StoreOp("execute_query", FALSE)>>
    IN  IF method # "POST" THEN <<>>
        ELSE IF SelectUser(users, username) # NoRow THEN select
        ELSE IF IsExc(generate_password_hash(FormGet(form, "password"))) THEN select
        ELSE select \o <<StoreOp("execute_query", username = None)>>

\* parts_list(): get_parts() and get_upcoming_notifications().
parts_list_ops == <<StoreOp("execute_query", FALSE), StoreOp("execute_query", FALSE)>>

\* create(): the INSERT of create_part, when the form passes the checks.
create_ops(method, form, items, itemSeq) ==
    IF method = "POST" /\ create_view(method, form, items, itemSeq).itemSeq # itemSeq
    THEN <<StoreOp("execute_query", FALSE)>>
    ELSE <<>>

\* update(): get_part_by_id, then, when the form passes the checks, the
\* UPDATE of update_part.
update_ops(method, item_id, form, items) ==
    LET parsed == ParsePartForm(form)
        f      == parsed.val
    IN  <<StoreOp("get_part_by_id", FALSE)>> \o
        (IF /\ get_part_by_id(items, item_id) # NoRow
            /\ method = "POST"
            /\ ~IsExc(parsed)
            /\ ~IsExc(ValidatePart(f.part_number, f.item_name, f.reminder_date))
         THEN <<StoreOp("execute_query", FALSE)>>
         ELSE <<>>)

\* delete(): the route's own connection.
delete_ops == <<StoreOp("crud.delete", FALSE)>>

\* index() of the finder: search_parts for a POST with a text to search.
index_ops(method, form, failure) ==
    IF method = "POST" /\ Truthy(Strip(FormGetDefault(form, "finder", <<>>)))
    THEN <<StoreOp("search_parts", failure)>>
    ELSE <<>>

(***************************************************************************)
(* The inputs of the model: the texts a browser sends, the clock.          *)
(***************************************************************************)
W1       == <<"W", "1">>
B2       == <<"B", "2">>
Washer   == <<"W", "a", "s", "h", "e", "r">>
Bolt     == <<"B", "o", "l", "t">>
D_0110   == <<"2", "0", "2", "5", "-", "0", "1", "-", "1", "0">>
D_0201   == <<"2", "0", "2", "5", "-", "2", "-", "1">>
D_Min    == <<"0", "0", "0", "1", "-", "0", "1", "-", "0", "1">>
D_Feb30  == <<"2", "0", "2", "5", "-", "0", "2", "-", "3", "0">>
D_Slash  == <<"1", "0", "/", "0", "1", "/", "2", "0", "2", "5">>

PartForm(pn, nm, ch, rd) ==
    [part_number |-> pn, item_name |-> nm, chapter |-> ch, reminder_date |-> rd]

\* Forms that pass every check of create and update.
ValidPartForms ==
    {PartForm(W1, Washer, <<"4">>, D_0110),
     PartForm(B2, Bolt, <<" ", "7">>, D_0201),
     PartForm(W1, Washer, <<"4">>, D_Min)}

\* Forms that fail one check each.
InvalidPartForms ==
    {PartForm(<<>>, Washer, <<"4">>, D_0110),
     PartForm(W1, <<>>, <<"4">>, D_0110),
     PartForm(W1, Washer, <<"x">>, D_0110),
     PartForm(W1, Washer, <<"4">>, <<>>),
     PartForm(W1, Washer, <<"4">>, D_Feb30),
     PartForm(W1, Washer, <<"4">>, D_Slash),
     [part_number |-> W1, item_name |-> Washer, chapter |-> <<"4">>]}

\* The form of a GET request: no field.
NoForm == NoRow

PartForms == ValidPartForms \cup InvalidPartForms \cup {NoForm}

Date(y, m, d) == [y |-> y, m |-> m, d |-> d]

\* The days on which a list view is requested.
Todays ==
    {Date(2025, 1, 8), Date(2025, 1, 9), Date(2025, 1, 10), Date(2025, 1, 11),
     Date(2025, 1, 31)}

U_admin == ADMIN
U_ana   == <<"a", "n", "a">>
U_Ana   == <<"A", "n", "a">>
U_bob   == <<"b", "o", "b">>
P1      == <<"p", "1">>
P2      == <<"p", "2">>
GUEST   == <<"g", "u", "e", "s", "t">>

LoginForms ==
    {[username |-> u, password |-> p] : u \in {U_admin, U_ana, U_Ana, U_bob}, p \in {P1, P2}}
      \cup {[username |-> U_ana], [password |-> P1], NoForm}

RegisterForms ==
    {[username |-> U_bob, password |-> P1],
     [username |-> U_bob, password |-> P2, role |-> GUEST],
     [username |-> U_Ana, password |-> P2, role |-> ADMIN],
     [username |-> U_ana, password |-> P2, role |-> ADMIN],
     [username |-> U_admin, password |-> P1, role |-> USER],
     [username |-> <<>>, password |-> P1, role |-> USER],
     [username |-> U_bob, role |-> USER],
     [password |-> P1, role |-> USER],
     NoForm}

\* What is typed into the search field.
SearchTexts ==
    {<<"3", "5", "2", "6", "5">>,
     <<"m", "s", "3", "5", "2", "6", "5", "-", "6", "3">>,
     <<"w", "a", "s", "h", "e", "r">>,
     <<"z">>,
     <<" ", "6">>,
     <<"_">>,
     <<"%", "1", "_", "-">>,
     <<>>}

SearchForms == {[finder |-> t] : t \in SearchTexts} \cup {NoForm}

\* The forms of the mro blueprint.
N1     == <<"N", "1">>
N2     == <<"N", "2">>
B747   == <<"B", "7", "4", "7">>
Boeing == <<"B", "o", "e", "i", "n", "g">>
Y2005  == <<"2", "0", "0", "5">>
Y2030  == <<"2", "0", "3", "0">>

AircraftForm(registration, year, capacity) ==
    [model |-> B747, registration |-> registration, year_of_manufacture |-> year,
     manufacturer |-> Boeing, passenger_capacity |-> capacity]

AircraftForms ==
    {AircraftForm(N1, Y2005, <<"4", "0", "0">>),
     AircraftForm(N2, Y2030, <<>>),
     AircraftForm(N2, <<"x">>, <<>>),
     AircraftForm(N2, Y2005, <<"m", "a", "n", "y">>),
     [model |-> B747, registration |-> N2, manufacturer |-> Boeing],
     NoForm}

Filter == <<"F", "i", "l", "t", "e", "r">>
Pump   == <<"P", "u", "m", "p">>
EF1    == <<"E", "F", "1">>
HP2    == <<"H", "P", "2">>

AircraftPartForms ==
    {[part_name |-> Filter, part_number |-> EF1],
     [part_name |-> Pump, part_number |-> EF1],
     [part_name |-> Pump, part_number |-> HP2],
     [part_name |-> Pump],
     NoForm}

Methods == {"GET", "POST"}

(***************************************************************************)
(* The state.                                                              *)
(***************************************************************************)
VARIABLES
    users,      \* table users of parts.db, in rowid order
    userSeq,    \* sqlite_sequence of users: the last id AUTOINCREMENT gave
    items,      \* table items of parts.db, in rowid order
    itemSeq,    \* sqlite_sequence of items
    session,    \* the browser's Flask session, a dict
    req,        \* the request handled last
    resp,       \* its response
    connections,    \* the connections the request opened and did not close
    aircraft,       \* table aircraft of parts.db, in rowid order
    aircraft_parts, \* table aircraft_parts of parts.db, in rowid order
    calls           \* the requests being handled at the same time, by worker

vars == <<users, userSeq, items, itemSeq, session, req, resp, connections,
          aircraft, aircraft_parts, calls>>

\* The tables of the mro blueprint.
registry == <<aircraft, aircraft_parts>>

\* parts.db exists before the application starts (CREATE TABLE IF NOT
\* EXISTS): its accounts are made outside of the application, because
\* register() itself asks for an administrator's session.
SeedUsers ==
    <<[id |-> 1, username |-> U_admin, password |-> generate_password_hash(P2).val,
       role |-> ADMIN],
      [id |-> 2, username |-> U_ana, password |-> generate_password_hash(P1).val,
       role |-> USER]>>

\* The parts already in the file: none, one whose notification was marked
\* as shown (the column is read by get_upcoming_notifications and written
\* by no statement of this generation), or one without a reminder date
\* (the column is nullable).
SeedItems ==
    {<<>>,
     <<[id |-> 1, part_number |-> B2, item_name |-> Bolt, chapter |-> 5,
        reminder_date |-> D_0110, notification_shown |-> 1]>>,
     <<[id |-> 1, part_number |-> B2, item_name |-> Bolt, chapter |-> 5,
        reminder_date |-> None, notification_shown |-> 0]>>}

\* Between two requests there is no request context.
NoRequest == [endpoint |-> "", method |-> ""]
NoResponse == Response(FALSE, "", "", <<>>)
Idle == req = NoRequest

\* The workers of the server: each handles one request at a time. A worker
\* that handles no request holds no call.
Workers == {1, 2}
NoCall == [op |-> "", pc |-> "idle"]

Init ==
    /\ users = SeedUsers
    /\ userSeq = Len(SeedUsers)
    /\ items \in SeedItems
    /\ itemSeq = Len(items)
    /\ session = EmptySession
    /\ req = NoRequest
    /\ resp = NoResponse
    /\ connections = <<>>
    /\ aircraft = <<>>
    /\ aircraft_parts = <<>>
    /\ calls = [w \in Workers |-> NoCall]

(***************************************************************************)
(* The requests. Item ids come from the URL (<int:item_id>).               *)
(***************************************************************************)
ItemIds == 1..MaxItemId

\* GET or POST /  (login blueprint)
Login ==
    /\ Idle
    /\ \E method \in Methods, form \in LoginForms :
        LET g == login_guard("login.login", session)
            v == login_view(method, form, users, session)
        IN  /\ method = "GET" => form = NoForm
            /\ req' = [endpoint |-> "login.login", method |-> method, form |-> form]
            /\ resp' = IF g.deny THEN Denied(g) ELSE v.resp
            /\ session' = IF g.deny THEN session ELSE v.session
            /\ UNCHANGED <<users, userSeq, items, itemSeq>>
            /\ connections' = IF g.deny THEN <<>> ELSE Unclosed(login_ops(method))
            /\ UNCHANGED calls
            /\ UNCHANGED registry

\* GET or POST /register
Register ==
    /\ Idle
    /\ \E method \in Methods, form \in RegisterForms :
        LET g == login_guard("login.register", session)
            v == register_view(method, form, users, userSeq)
        IN  /\ method = "GET" => form = NoForm
            /\ ~g.deny => v.userSeq <= MaxUserId
            /\ req' = [endpoint |-> "login.register", method |-> method, form |-> form]
            /\ resp' = IF g.deny THEN Denied(g) ELSE v.resp
            /\ users' = IF g.deny THEN users ELSE v.users
            /\ userSeq' = IF g.deny THEN userSeq ELSE v.userSeq
            /\ UNCHANGED <<items, itemSeq, session>>
            /\ connections' = IF g.deny THEN <<>> ELSE Unclosed(register_ops(method, form, users))
            /\ UNCHANGED calls
            /\ UNCHANGED registry

\* GET or POST /logout
Logout ==
    /\ Idle
    /\ \E method \in Methods :
        LET g == login_guard("login.logout", session)
            v == logout_view(session)
        IN  /\ req' = [endpoint |-> "login.logout", method |-> method]
            /\ resp' = IF g.deny THEN Denied(g) ELSE v.resp
            /\ session' = IF g.deny THEN session ELSE v.session
            /\ UNCHANGED <<users, userSeq, items, itemSeq>>
            /\ connections' = <<>>
            /\ UNCHANGED calls
            /\ UNCHANGED registry

\* GET /home_user and GET /home_admin
Home ==
    /\ Idle
    /\ \E endpoint \in {"login.home_user", "login.admin_dashboard"} :
        LET g == login_guard(endpoint, session)
        IN  /\ req' = [endpoint |-> endpoint, method |-> "GET"]
            /\ resp' = IF g.deny THEN Denied(g)
                       ELSE Response(TRUE, "render",
                                     IF endpoint = "login.home_user" THEN "home_user.html"
                                     ELSE "admin_home.html", <<>>)
            /\ UNCHANGED <<users, userSeq, items, itemSeq, session>>
            /\ connections' = <<>>
            /\ UNCHANGED calls
            /\ UNCHANGED registry

\* GET /  (crud blueprint): the list of parts with the notifications
PartsList ==
    /\ Idle
    /\ \E today \in Todays :
        LET g == crud_guard("crud.parts_list", session)
        IN  /\ req' = [endpoint |-> "crud.parts_list", method |-> "GET", today |-> today]
            /\ resp' = IF g.deny THEN Denied(g) ELSE parts_list_view(items, today)
            /\ UNCHANGED <<users, userSeq, items, itemSeq, session>>
            /\ connections' = IF g.deny THEN <<>> ELSE Unclosed(parts_list_ops)
            /\ UNCHANGED calls
            /\ UNCHANGED registry

\* GET or POST /create
Create ==
    /\ Idle
    /\ \E method \in Methods, form \in PartForms :
        LET g == crud_guard("crud.create", session)
            v == create_view(method, form, items, itemSeq)
        IN  /\ method = "GET" => form = NoForm
            /\ ~g.deny => v.itemSeq <= MaxItemId
            /\ req' = [endpoint |-> "crud.create", method |-> method, form |-> form]
            /\ resp' = IF g.deny THEN Denied(g) ELSE v.resp
            /\ items' = IF g.deny THEN items ELSE v.items
            /\ itemSeq' = IF g.deny THEN itemSeq ELSE v.itemSeq
            /\ UNCHANGED <<users, userSeq, session>>
            /\ connections' = IF g.deny THEN <<>> ELSE Unclosed(create_ops(method, form, items, itemSeq))
            /\ UNCHANGED calls
            /\ UNCHANGED registry

\* GET or POST /update/<int:item_id>
Update ==
    /\ Idle
    /\ \E method \in Methods, item_id \in ItemIds, form \in PartForms :
        LET g == crud_guard("crud.update", session)
            v == update_view(method, item_id, form, items)
        IN  /\ method = "GET" => form = NoForm
            /\ req' = [endpoint |-> "crud.update", method |-> method,
                       item_id |-> item_id, form |-> form]
            /\ resp' = IF g.deny THEN Denied(g) ELSE v.resp
            /\ items' = IF g.deny THEN items ELSE v.items
            /\ UNCHANGED <<users, userSeq, itemSeq, session>>
            /\ connections' = IF g.deny THEN <<>> ELSE Unclosed(update_ops(method, item_id, form, items))
            /\ UNCHANGED calls
            /\ UNCHANGED registry

\* GET or POST /delete/<int:item_id>
Delete ==
    /\ Idle
    /\ \E method \in Methods, item_id \in ItemIds :
        LET g == crud_guard("crud.delete", session)
            v == delete_view(item_id, items)
        IN  /\ req' = [endpoint |-> "crud.delete", method |-> method, item_id |-> item_id]
            /\ resp' = IF g.deny THEN Denied(g) ELSE v.resp
            /\ items' = IF g.deny THEN items ELSE v.items
            /\ UNCHANGED <<users, userSeq, itemSeq, session>>
            /\ connections' = IF g.deny THEN <<>> ELSE Unclosed(delete_ops)
            /\ UNCHANGED calls
            /\ UNCHANGED registry

\* GET or POST /  (finder blueprint): the search of the catalog
Search ==
    /\ Idle
    /\ \E method \in Methods, form \in SearchForms, failure \in BOOLEAN :
        LET g == finder_guard(session)
        IN  /\ method = "GET" => form = NoForm /\ ~failure
            /\ req' = [endpoint |-> "finder.index", method |-> method, form |-> form,
                       failure |-> failure]
            /\ resp' = IF g.deny THEN Denied(g) ELSE index_view(method, form, failure)
            /\ UNCHANGED <<users, userSeq, items, itemSeq, session>>
            /\ connections' = IF g.deny THEN <<>> ELSE Unclosed(index_ops(method, form, failure))
            /\ UNCHANGED calls
            /\ UNCHANGED registry

\* The response is sent and the request context ends: requests are handled
\* one at a time, each to completion.
Respond ==
    /\ ~Idle
    /\ req' = NoRequest
    /\ resp' = NoResponse
    /\ UNCHANGED <<users, userSeq, items, itemSeq, session>>
    /\ connections' = <<>>
    /\ UNCHANGED calls
    /\ UNCHANGED registry

Next ==
    \/ Login
    \/ Register
    \/ Logout
    \/ Home
    \/ PartsList
    \/ Create
    \/ Update
    \/ Delete
    \/ Search
    \/ Respond

Spec == Init /\ [][Next]_vars

(***************************************************************************)
(* The requests of the mro blueprint.                                      *)
(***************************************************************************)
RegistryIds == 1..MaxRegistryId
IdsWithin(rows) == \A i \in 1..Len(rows) : rows[i].id <= MaxRegistryId

\* GET or POST /aircraft
Aircraft ==
    /\ Idle
    /\ \E method \in Methods, form \in AircraftForms :
        LET g == mro_guard("mro.aircraft", session)
            v == aircraft_view(method, form, aircraft)
        IN  /\ method = "GET" => form = NoForm
            /\ IdsWithin(v.aircraft)
            /\ req' = [endpoint |-> "mro.aircraft", method |-> method, form |-> form]
            /\ resp' = IF g.deny THEN Denied(g) ELSE v.resp
            /\ aircraft' = IF g.deny THEN aircraft ELSE v.aircraft
            /\ connections' = <<>>
            /\ UNCHANGED calls
            /\ UNCHANGED <<users, userSeq, items, itemSeq, session, aircraft_parts>>

\* GET or POST /edit/<int:aircraft_id>
EditAircraft ==
    /\ Idle
    /\ \E method \in Methods, aircraft_id \in RegistryIds, form \in AircraftForms :
        LET g == mro_guard("mro.edit_aircraft", session)
            v == edit_aircraft_view(method, aircraft_id, form, aircraft)
        IN  /\ method = "GET" => form = NoForm
            /\ req' = [endpoint |-> "mro.edit_aircraft", method |-> method,
                       aircraft_id |-> aircraft_id, form |-> form]
            /\ resp' = IF g.deny THEN Denied(g) ELSE v.resp
            /\ aircraft' = IF g.deny THEN aircraft ELSE v.aircraft
            /\ connections' = <<>>
            /\ UNCHANGED calls
            /\ UNCHANGED <<users, userSeq, items, itemSeq, session, aircraft_parts>>

\* POST /delete/<int:aircraft_id>
DeleteAircraft ==
    /\ Idle
    /\ \E aircraft_id \in RegistryIds :
        LET g == mro_guard("mro.delete_aircraft", session)
            v == delete_aircraft_view(aircraft_id, aircraft)
        IN  /\ req' = [endpoint |-> "mro.delete_aircraft", method |-> "POST",
                       aircraft_id |-> aircraft_id]
            /\ resp' = IF g.deny THEN Denied(g) ELSE v.resp
            /\ aircraft' = IF g.deny THEN aircraft ELSE v.aircraft
            /\ connections' = <<>>
            /\ UNCHANGED calls
            /\ UNCHANGED <<users, userSeq, items, itemSeq, session, aircraft_parts>>

\* GET or POST /aircraft/<int:aircraft_id>/parts
AircraftParts ==
    /\ Idle
    /\ \E method \in Methods, aircraft_id \in RegistryIds, form \in AircraftPartForms :
        LET g == mro_guard("mro.aircraft_parts", session)
            v == aircraft_parts_view(method, aircraft_id, form, aircraft, aircraft_parts)
        IN  /\ method = "GET" => form = NoForm
            /\ IdsWithin(v.aircraft_parts)
            /\ req' = [endpoint |-> "mro.aircraft_parts", method |-> method,
                       aircraft_id |-> aircraft_id, form |-> form]
            /\ resp' = IF g.deny THEN Denied(g) ELSE v.resp
            /\ aircraft_parts' = IF g.deny THEN aircraft_parts ELSE v.aircraft_parts
            /\ connections' = <<>>
            /\ UNCHANGED calls
            /\ UNCHANGED <<users, userSeq, items, itemSeq, session, aircraft>>

\* POST /delete-part/<int:part_id>
DeleteAircraftPart ==
    /\ Idle
    /\ \E part_id \in RegistryIds :
        LET g == mro_guard("mro.delete_part", session)
            v == mro_delete_part_view(part_id, aircraft_parts)
        IN  /\ req' = [endpoint |-> "mro.delete_part", method |-> "POST", part_id |-> part_id]
            /\ resp' = IF g.deny THEN Denied(g) ELSE v.resp
            /\ aircraft_parts' = IF g.deny THEN aircraft_parts ELSE v.aircraft_parts
            /\ connections' = <<>>
            /\ UNCHANGED calls
            /\ UNCHANGED <<users, userSeq, items, itemSeq, session, aircraft>>

\* The registry next to the login: the mro blueprint touches no table of
\* the other blueprints, and they touch none of its tables.
NextMro ==
    \/ Login
    \/ Logout
    \/ Aircraft
    \/ EditAircraft
    \/ DeleteAircraft
    \/ AircraftParts
    \/ DeleteAircraftPart
    \/ Respond

SpecMro == Init /\ [][NextMro]_vars

(***************************************************************************)
(* The requests of the application of run.py: the crud blueprint of        *)
(* CRUD/crud.py, which starts from an empty table and asks for no login.   *)
(***************************************************************************)
LegacyOp == StoreOp("CRUD/crud.py", FALSE)

\* GET /crud/
LegacyPartsList ==
    /\ Idle
    /\ \E today \in Todays :
        /\ req' = [endpoint |-> "crud.parts_list", method |-> "GET", today |-> today]
        /\ resp' = legacy_parts_list_view(items, today)
        /\ connections' = Unclosed(<<LegacyOp, LegacyOp>>)
        /\ UNCHANGED calls
        /\ UNCHANGED <<users, userSeq, items, itemSeq, session, registry>>

\* GET or POST /crud/create
LegacyCreate ==
    /\ Idle
    /\ \E method \in Methods, form \in PartForms :
        LET v == legacy_create_view(method, form, items, itemSeq)
        IN  /\ method = "GET" => form = NoForm
            /\ v.itemSeq <= MaxItemId
            /\ req' = [endpoint |-> "crud.create", method |-> method, form |-> form]
            /\ resp' = v.resp
            /\ items' = v.items
            /\ itemSeq' = v.itemSeq
            /\ connections' = Unclosed(IF v.itemSeq # itemSeq THEN <<LegacyOp>> ELSE <<>>)
            /\ UNCHANGED calls
            /\ UNCHANGED <<users, userSeq, session, registry>>

\* GET or POST /crud/update/<int:item_id>
LegacyUpdate ==
    /\ Idle
    /\ \E method \in Methods, item_id \in ItemIds, form \in PartForms :
        LET v == legacy_update_view(method, item_id, form, items)
        IN  /\ method = "GET" => form = NoForm
            /\ req' = [endpoint |-> "crud.update", method |-> method,
                       item_id |-> item_id, form |-> form]
            /\ resp' = v.resp
            /\ items' = v.items
            /\ connections' = Unclosed(IF v.resp.status = "error" THEN <<>> ELSE <<LegacyOp>>)
            /\ UNCHANGED calls
            /\ UNCHANGED <<users, userSeq, itemSeq, session, registry>>

\* GET or POST /crud/delete/<int:item_id>
LegacyDelete ==
    /\ Idle
    /\ \E method \in Methods, item_id \in ItemIds :
        LET v == legacy_delete_view(item_id, items)
        IN  /\ req' = [endpoint |-> "crud.delete", method |-> method, item_id |-> item_id]
            /\ resp' = v.resp
            /\ items' = v.items
            /\ connections' = Unclosed(<<LegacyOp>>)
            /\ UNCHANGED calls
            /\ UNCHANGED <<users, userSeq, itemSeq, session, registry>>

InitLegacy == Init /\ items = <<>>

NextLegacy ==
    \/ LegacyPartsList
    \/ LegacyCreate
    \/ LegacyUpdate
    \/ LegacyDelete
    \/ Respond

SpecLegacy == InitLegacy /\ [][NextLegacy]_vars

(***************************************************************************)
(* Requests handled at the same time. Each worker runs one request; every  *)
(* call of execute_query and get_part_by_id opens its own connection and   *)
(* runs one statement, so a request is a sequence of steps, one per        *)
(* statement, and the steps of two requests interleave. The requests are   *)
(* those of administrators whose session passed the guards.                *)
(***************************************************************************)
\* The forms of the concurrent registrations: username and password sent.
RaceRegisterForms ==
    {form \in RegisterForms : {"username", "password"} \subseteq DOMAIN form}

\* The forms of the concurrent updates.
RaceUpdateForms ==
    ValidPartForms \cup {PartForm(W1, Washer, <<"4">>, D_Slash)}

\* A call that ended: what the view answers, what the function returned (as
\* text) and the exception that left it.
Ended(call, response, ret, exc) ==
    [op |-> call.op, pc |-> "done", form |-> call.form, item_id |-> call.item_id,
     resp |-> response, ret |-> ret, exc |-> exc]

\* A call at its next statement.
At(call, pc) == [call EXCEPT !.pc = pc]

\* POST /register reaches register_user.
RegisterBegin(w) ==
    /\ calls[w].pc = "idle"
    /\ \E form \in RaceRegisterForms :
           calls' = [calls EXCEPT ![w] =
                        [op |-> "register", pc |-> "select", form |-> form, item_id |-> 0]]
    /\ UNCHANGED <<users, userSeq, items, itemSeq, session, req, resp, connections, registry>>

\* register_user: SELECT id FROM users WHERE username = ?, and the answer
\* when a row is found.
RegisterSelect(w) ==
    /\ calls[w].op = "register" /\ calls[w].pc = "select"
    /\ LET existing_user == SelectUser(users, FormGet(calls[w].form, "username"))
       IN  calls' = [calls EXCEPT ![w] =
                IF existing_user # NoRow
                THEN Ended(@, [Response(TRUE, "render", "register.html",
                                   <<Flash("The username is already registered.", "danger"),
                                     Flash("An error occurred while registering the user.", "danger")>>)
                                 EXCEPT !.ret = "False"],
                           "False", "")
                ELSE At(@, "insert")]
    /\ UNCHANGED <<users, userSeq, items, itemSeq, session, req, resp, connections, registry>>

\* register_user: generate_password_hash and INSERT INTO users; an
\* exception of either leaves register_user and the view.
RegisterInsert(w) ==
    /\ calls[w].op = "register" /\ calls[w].pc = "insert"
    /\ LET form     == calls[w].form
           hashed   == generate_password_hash(FormGet(form, "password"))
           inserted == InsertUser(users, userSeq, FormGet(form, "username"), hashed.val,
                                  FormGetDefault(form, "role", USER))
       IN  IF IsExc(hashed) \/ IsExc(inserted)
           THEN /\ calls' = [calls EXCEPT ![w] =
                        Ended(@, Response(TRUE, "error",
                                          IF IsExc(hashed) THEN hashed.exc ELSE inserted.exc,
                                          <<>>),
                              "", IF IsExc(hashed) THEN hashed.exc ELSE inserted.exc)]
                /\ UNCHANGED <<users, userSeq>>
           ELSE /\ userSeq <= MaxUserId
                /\ users' = inserted.val.users
                /\ userSeq' = inserted.val.userSeq
                /\ calls' = [calls EXCEPT ![w] =
                        Ended(@, [Response(TRUE, "redirect", "login.login",
                                     <<Flash("User registered successfully.", "success"),
                                       Flash("User registered successfully.", "success")>>)
                                   EXCEPT !.ret = "True"],
                              "True", "")]
    /\ UNCHANGED <<items, itemSeq, session, req, resp, connections, registry>>

\* POST /update/<int:item_id> reaches update().
UpdateBegin(w) ==
    /\ calls[w].pc = "idle"
    /\ \E item_id \in ItemIds, form \in RaceUpdateForms :
           calls' = [calls EXCEPT ![w] =
                        [op |-> "update", pc |-> "fetch", form |-> form, item_id |-> item_id]]
    /\ UNCHANGED <<users, userSeq, items, itemSeq, session, req, resp, connections, registry>>

\* update(): item = get_part_by_id(item_id), and the answer when there is
\* no such row.
UpdateFetch(w) ==
    /\ calls[w].op = "update" /\ calls[w].pc = "fetch"
    /\ LET item == get_part_by_id(items, calls[w].item_id)
       IN  calls' = [calls EXCEPT ![w] =
                IF item = NoRow
                THEN Ended(@, Response(TRUE, "redirect", "crud.parts_list",
                                  <<Flash("Item with ID {item_id} not found.", "danger")>>),
                           "", "")
                ELSE At(@, "write")]
    /\ UNCHANGED <<users, userSeq, items, itemSeq, session, req, resp, connections, registry>>

\* update(): the form is read and checked, then update_part issues its one
\* UPDATE statement; an exception is flashed and the form shown again.
UpdateWrite(w) ==
    /\ calls[w].op = "update" /\ calls[w].pc = "write"
    /\ LET parsed  == ParsePartForm(calls[w].form)
           f       == parsed.val
           updated == update_part(items, calls[w].item_id, f.part_number, f.item_name,
                                  f.chapter, f.reminder_date)
           failed(e) ==
               Response(TRUE, "render", "admin_update.html",
                        <<FlashF("Error updating part: {e}", e.val, "danger")>>)
       IN  IF IsExc(parsed)
           THEN /\ calls' = [calls EXCEPT ![w] = Ended(@, failed(parsed), "", "")]
                /\ UNCHANGED items
           ELSE IF IsExc(updated)
           THEN /\ calls' = [calls EXCEPT ![w] = Ended(@, failed(updated), "", "")]
                /\ UNCHANGED items
           ELSE /\ items' = updated.val
                /\ calls' = [calls EXCEPT ![w] =
                        Ended(@, Response(TRUE, "redirect", "crud.parts_list",
                                     <<Flash("Part updated successfully.", "success")>>),
                              "", "")]
    /\ UNCHANGED <<users, userSeq, itemSeq, session, req, resp, connections, registry>>

\* The response is sent; the worker takes the next request.
Finish(w) ==
    /\ calls[w].pc = "done"
    /\ calls' = [calls EXCEPT ![w] = NoCall]
    /\ UNCHANGED <<users, userSeq, items, itemSeq, session, req, resp, connections, registry>>

NextConcurrent ==
    \E w \in Workers :
        \/ RegisterBegin(w)
        \/ RegisterSelect(w)
        \/ RegisterInsert(w)
        \/ UpdateBegin(w)
        \/ UpdateFetch(w)
        \/ UpdateWrite(w)
        \/ Finish(w)

SpecConcurrent == Init /\ [][NextConcurrent]_vars

(***************************************************************************)
(* Vocabulary of the properties.                                           *)
(***************************************************************************)
\* The Access Guard's decision, read off the response: ALLOW when the view
\* ran; otherwise the warning flashed tells the two denials apart.
Decision(r) ==
    IF r.view THEN "ALLOW"
    ELSE IF r.flashes[1].message = MSG_LOGIN THEN "DENY_UNAUTHENTICATED"
    ELSE "DENY_FORBIDDEN"

\* The admin-restricted routes: the crud blueprint and /home_admin.
AdminRoutes == CrudEndpoints \cup {"login.admin_dashboard"}

HasSession(sess) == "user_id" \in DOMAIN sess
IsAdminSession(sess) == HasSession(sess) /\ sess.role = ADMIN
IsUserSession(sess) == HasSession(sess) /\ sess.role = USER

\* A request is being answered: req and resp describe the step just taken.
Answered(endpoint) == req.endpoint = endpoint
AnsweredNext(endpoint) == Idle /\ req'.endpoint = endpoint

StoredUsernames(us) == {us[i].username : i \in 1..Len(us)}
ItemIdsOf(its) == {its[i].id : i \in 1..Len(its)}

\* C1: on an admin-restricted route, no Session is answered
\* DENY_UNAUTHENTICATED with a redirect to login, a Session of role "user"
\* DENY_FORBIDDEN, a Session of role "admin" ALLOW; a request without a
\* Session is never answered DENY_FORBIDDEN.
C1_AdminRouteDecision ==
    req.endpoint \in AdminRoutes =>
        /\ ~HasSession(session) =>
               Decision(resp) = "DENY_UNAUTHENTICATED" /\ resp.target = "login.login"
        /\ IsUserSession(session) => Decision(resp) = "DENY_FORBIDDEN"
        /\ IsAdminSession(session) => Decision(resp) = "ALLOW"
        /\ Decision(resp) = "DENY_FORBIDDEN" => HasSession(session)

\* A "user" Session was refused a page of the crud blueprint.
C1_Witness ==
    /\ Answered("crud.create")
    /\ IsUserSession(session)
    /\ Decision(resp) = "DENY_FORBIDDEN"

\* C2: the items table changes only in a step of the crud blueprint taken
\* with an "admin" Session, and a denied request changes neither table.
C2_WritesOnlyByAdmin ==
    [][/\ (items' # items \/ itemSeq' # itemSeq) =>
              IsAdminSession(session) /\ req'.endpoint \in CrudEndpoints
       /\ (~Idle' /\ ~resp'.view) =>
              /\ items' = items /\ itemSeq' = itemSeq
              /\ users' = users /\ userSeq' = userSeq]_vars

\* An administrator created a part.
C2_Witness ==
    /\ Answered("crud.create")
    /\ IsAdminSession(session)
    /\ resp.status = "redirect"
    /\ items # <<>>

\* A login form whose username and password are both texts.
CredentialForms ==
    {f \in LoginForms : {"username", "password"} \subseteq DOMAIN f}

\* The stored hash of the named user verifies against the password.
Verifies(us, username, password) ==
    \E i \in 1..Len(us) :
        /\ us[i].username = username
        /\ us[i].password = generate_password_hash(password).val

\* C3: with a wrong password, login_user behaves the same for a username
\* that is stored and for one that is not: it returns None, queues the one
\* generic message and leaves the Session as it is; the login page built
\* from it is the same too.
C3_NoUsernameLeak ==
    \A f1, f2 \in CredentialForms :
        (/\ f1.password = f2.password
         /\ f1.username \in StoredUsernames(users)
         /\ ~Verifies(users, f1.username, f1.password)
         /\ f2.username \notin StoredUsernames(users))
        => LET known   == login_user(users, session, f1.username, f1.password)
               unknown == login_user(users, session, f2.username, f2.password)
           IN  /\ known = unknown
               /\ known.exc = "" /\ known.ret = NoRow
               /\ known.session = session
               /\ known.flashes = <<Flash("Incorrect username or password.", "danger")>>
               /\ login_view("POST", f1, users, session)
                    = login_view("POST", f2, users, session)

\* A login with a stored username and a wrong password was refused while
\* a Session existed.
C3_Witness ==
    /\ Answered("login.login")
    /\ req.form \in CredentialForms
    /\ req.form.username \in StoredUsernames(users)
    /\ ~Verifies(users, req.form.username, req.form.password)
    /\ resp.ret = "None"
    /\ HasSession(session)

\* The Session names the user of this row.
SessionOfRow(sess, row) ==
    /\ HasSession(sess)
    /\ sess.user_id = row.id
    /\ sess.username = row.username
    /\ sess.role = row.role

\* C4: login_user creates a Session exactly when the username is stored and
\* the password verifies against its hash, the Session then being that
\* row's; a failed login leaves the Session as it was; only a login makes
\* a Session; and every Session is the (id, username, role) of a stored row.
C4_SessionIffVerified ==
    /\ [](\A f \in CredentialForms :
            LET r == login_user(users, session, f.username, f.password)
            IN  /\ r.ret # NoRow <=> Verifies(users, f.username, f.password)
                /\ r.ret = NoRow => r.session = session
                /\ r.ret # NoRow =>
                       \E i \in 1..Len(users) :
                           /\ users[i].username = f.username
                           /\ SessionOfRow(r.session, users[i]))
    /\ [](HasSession(session) =>
            \E i \in 1..Len(users) : SessionOfRow(session, users[i]))
    /\ [][session' # session /\ HasSession(session') =>
            /\ req'.endpoint = "login.login" /\ req'.method = "POST"
            /\ req'.form \in CredentialForms
            /\ Verifies(users, req'.form.username, req'.form.password)]_vars

\* A login replaced the Session of one user by that of another.
C4_Witness ==
    /\ Answered("login.login")
    /\ resp.ret = "dict"
    /\ IsUserSession(session)
    /\ resp.target = "login.home_user"

\* What a logout request does to a Session: the guards of the login
\* blueprint, then the view.
LogoutRequest(sess) ==
    LET g == login_guard("login.logout", sess)
    IN  IF g.deny THEN [resp |-> Denied(g), session |-> sess] ELSE logout_view(sess)

\* C5: a logout request is carried out as a logout whether or not a
\* Session exists, leaves no Session, and a second logout gives the same
\* response and the same state as the first.
C5_LogoutUnconditional ==
    Answered("login.logout") =>
        /\ Decision(resp) = "ALLOW"
        /\ resp.flashes = <<Flash("You have been logged out successfully.", "info")>>
        /\ ~HasSession(session)
        /\ LogoutRequest(session) = [resp |-> resp, session |-> session]

\* C6: a register request whose username equals a stored username makes
\* register_user return False and leaves the users table as it was.
C6_DuplicateUsernameRejected ==
    [][(/\ AnsweredNext("login.register")
        /\ req'.method = "POST"
        /\ resp'.view
        /\ "username" \in DOMAIN req'.form
        /\ req'.form.username \in StoredUsernames(users))
       => /\ resp'.ret = "False"
          /\ resp'.status = "render"
          /\ users' = users
          /\ userSeq' = userSeq]_vars

\* A registration under a stored username was turned down.
C6_Witness ==
    /\ Answered("login.register")
    /\ resp.ret = "False"
    /\ req.form.username \in StoredUsernames(users)

\* The calendar day after d.
DayAfter(d) ==
    IF d.d < DaysInMonth(d.y, d.m) THEN Date(d.y, d.m, d.d + 1)
    ELSE IF d.m < 12 THEN Date(d.y, d.m + 1, 1)
    ELSE Date(d.y + 1, 1, 1)

\* The messages the specification asks for one part.
ExpectedOfRow(row, today) ==
    LET due == Strptime(row.reminder_date)
    IN  IF row.reminder_date = None \/ row.notification_shown # 0 \/ IsExc(due) THEN <<>>
        ELSE IF DayAfter(today) = due.val
        THEN <<Notification(row.item_name, "Tomorrow is the reminder date for '{item_name}'.")>>
        ELSE IF today = due.val
        THEN <<Notification(row.item_name, "Today is the reminder date for '{item_name}'.")>>
        ELSE <<>>

RECURSIVE ExpectedNotifications(_, _)
ExpectedNotifications(rows, today) ==
    IF rows = <<>> THEN <<>>
    ELSE ExpectedOfRow(rows[1], today) \o ExpectedNotifications(Tail(rows), today)

\* C7: for every day, pending_notifications returns, in the order of the
\* rows, one "tomorrow" message for each unacknowledged part due the next
\* day, one "today" message for each due that day, and nothing else.
C7_NotificationsAsSpecified ==
    \A today \in Todays :
        get_upcoming_notifications(items, today)
            = Return(ExpectedNotifications(items, today))

\* C8: after a successful update of a part, its notification_shown is 0.
C8_UpdateResetsAcknowledged ==
    (/\ Answered("crud.update")
     /\ resp.flashes = <<Flash("Part updated successfully.", "success")>>)
    => \A i \in 1..Len(items) :
           items[i].id = req.item_id => items[i].notification_shown = 0

\* The inputs the specification calls valid for create.
ValidCreateInput(form) ==
    /\ DOMAIN form = {"part_number", "item_name", "chapter", "reminder_date"}
    /\ form.part_number # <<>> /\ form.item_name # <<>>
    /\ ~IsExc(PyInt(form.chapter))
    /\ ~IsExc(Strptime(form.reminder_date))

\* C9: a create with valid inputs appends exactly one part, under an id no
\* stored part has; get(id) returns it with the part_number, item_name,
\* chapter and reminder_date given, it is not acknowledged, and the parts
\* stored before are unchanged.
C9_CreateThenGet ==
    [][(/\ AnsweredNext("crud.create")
        /\ req'.method = "POST"
        /\ resp'.view
        /\ ValidCreateInput(req'.form))
       => /\ Len(items') = Len(items) + 1
          /\ SubSeq(items', 1, Len(items)) = items
          /\ LET new == items'[Len(items')]
             IN  /\ new.id \notin ItemIdsOf(items)
                 /\ new.notification_shown = 0
                 /\ get_part_by_id(items', new.id) =
                       [id            |-> new.id,
                        part_number   |-> req'.form.part_number,
                        item_name     |-> req'.form.item_name,
                        chapter       |-> PyInt(req'.form.chapter).val,
                        reminder_date |-> req'.form.reminder_date]
          /\ resp'.flashes = <<Flash("Part created successfully.", "success")>>]_vars

\* A second part was created next to a stored one.
C9_Witness ==
    /\ Answered("crud.create")
    /\ resp.flashes = <<Flash("Part created successfully.", "success")>>
    /\ Len(items) = 2
    /\ items[2].chapter = 7

\* C10: after delete(id), get(id) is None and the other parts are as they
\* were; the request never ends in an error, and deleting an id that is
\* not stored leaves the store as it was.
C10_DeleteIdempotent ==
    [][(AnsweredNext("crud.delete") /\ resp'.view)
       => /\ get_part_by_id(items', req'.item_id) = NoRow
          /\ items' = SelectSeq(items, LAMBDA r : r.id # req'.item_id)
          /\ itemSeq' = itemSeq
          /\ resp'.status = "redirect"
          /\ resp'.flashes = <<Flash("Part deleted successfully.", "success")>>
          /\ (get_part_by_id(items, req'.item_id) = NoRow => items' = items)]_vars

\* A delete was answered for an id that had been given out and is stored
\* no more, next to a part that stays.
C10_Witness ==
    /\ Answered("crud.delete")
    /\ resp.view
    /\ req.item_id <= itemSeq
    /\ req.item_id \notin ItemIdsOf(items)
    /\ items # <<>>



\* The text with its letters folded to lower case.
LowerText(s) == [i \in 1..Len(s) |-> FoldCase(s[i])]

\* The rows of the catalog in which s occurs, letter for letter in either
\* case, in the part number or in the item name.
LiteralMatches(s) ==
    SelectSeq(PartsTable,
        LAMBDA r : \/ Contains(LowerText(r.part_number), LowerText(s))
                   \/ Contains(LowerText(r.item_name), LowerText(s)))

\* C11: a search for the text s that the store carries out shows exactly
\* the rows in which s occurs as a literal substring, case aside, in
\* part_number or item_name; for the empty text these are all rows.
C11_SearchLiteralSubstring ==
    (/\ Answered("finder.index")
     /\ resp.view
     /\ req.method = "POST"
     /\ "finder" \in DOMAIN req.form
     /\ ~req.failure)
        => resp.data = LiteralMatches(req.form.finder)

\* C12: an update request for an id that is not in the store is answered
\* with the message that the item was not found and a redirect to the
\* list, with no message of success, and items stays as it was; this for
\* GET and for POST, whatever the form holds.
C12_UpdateMissingIdNotFound ==
    [][(/\ AnsweredNext("crud.update")
        /\ resp'.view
        /\ req'.item_id \notin ItemIdsOf(items))
          => /\ items' = items
             /\ itemSeq' = itemSeq
             /\ resp'.status = "redirect"
             /\ resp'.target = "crud.parts_list"
             /\ resp'.flashes = <<Flash("Item with ID {item_id} not found.", "danger")>>]_vars

\* A POST with a form that passes every check, for an id that is not stored.
C12_Witness ==
    /\ Answered("crud.update")
    /\ resp.view
    /\ req.method = "POST"
    /\ req.form \in ValidPartForms
    /\ req.item_id \notin ItemIdsOf(items)
    /\ items # <<>>
    /\ resp.flashes = <<Flash("Item with ID {item_id} not found.", "danger")>>

\* The public allow-list of the login blueprint's hook (the endpoint
\* "static" belongs to the application, which no hook of a blueprint sees).
PublicRoutes == {"login.login", "login.register"}

\* C13: a request to a route of the public allow-list is allowed, that is
\* its view runs, whatever the session holds, and also without a session.
C13_PublicRoutesAllowed ==
    req.endpoint \in PublicRoutes => resp.view

\* The role each route asks for: @role_required(...) of the view and, in
\* the login blueprint, the word "admin" or "user" in the path.
AdminOnlyRoutes ==
    CrudEndpoints \cup {"login.admin_dashboard", "login.register", "finder.index"}
UserOnlyRoutes == {"login.home_user"}
RequiredRole(endpoint) == IF endpoint \in UserOnlyRoutes THEN USER ELSE ADMIN

\* C14: the view of a route that asks for a role runs only for a session
\* whose role is that role; a session of role "user" is denied on every
\* admin-only route and a session of role "admin" is denied on /home_user,
\* both with the permission warning.
C14_RoleRequiredBothWays ==
    req.endpoint \in AdminOnlyRoutes \cup UserOnlyRoutes =>
        /\ resp.view => /\ HasSession(session)
                        /\ session.role = RequiredRole(req.endpoint)
        /\ (HasSession(session) /\ session.role # RequiredRole(req.endpoint)) =>
               /\ ~resp.view
               /\ resp.status = "redirect"
               /\ Decision(resp) = "DENY_FORBIDDEN"

\* An administrator asks for the users' home page and is turned away.
C14_Witness ==
    /\ Answered("login.home_user")
    /\ IsAdminSession(session)
    /\ ~resp.view
    /\ Decision(resp) = "DENY_FORBIDDEN"

\* The requests of the mro blueprint that write to the registry.
RegistryWrites ==
    {"mro.aircraft", "mro.edit_aircraft", "mro.delete_aircraft",
     "mro.aircraft_parts", "mro.delete_part"}

\* C15: a request of the mro blueprint changes the tables aircraft and
\* aircraft_parts only when a session exists; without a session both
\* tables stay as they were.
C15_RegistryBehindLogin ==
    [][(req'.endpoint \in RegistryWrites /\ ~HasSession(session))
          => registry' = registry]_vars

\* C16: a search request from a session of role "user" is allowed: the
\* view runs, and a POST with a text to search that the store carries out
\* shows what search_parts finds for that text.
C16_UserMaySearch ==
    (req.endpoint = "finder.index" /\ IsUserSession(session)) =>
        /\ resp.view
        /\ (/\ req.method = "POST"
            /\ ~req.failure
            /\ Truthy(Strip(FormGetDefault(req.form, "finder", <<>>))))
              => resp.data =
                   search_parts(Strip(FormGetDefault(req.form, "finder", <<>>)), FALSE).val

\* A form of create or update with a part number, an item name, a chapter
\* that is a number, and no reminder date (the field absent or left empty).
WithoutReminderDate(form) ==
    /\ {"part_number", "item_name", "chapter"} \subseteq DOMAIN form
    /\ Truthy(form.part_number)
    /\ Truthy(form.item_name)
    /\ ~IsExc(PyInt(form.chapter))
    /\ ~Truthy(FormGet(form, "reminder_date"))

\* C17: create, and update of a stored part, with such a form succeed: the
\* request is answered with the message of success and the part is stored
\* with the submitted fields and without a reminder date.
C17_ReminderDateOptional ==
    (/\ req.endpoint \in {"crud.create", "crud.update"}
     /\ resp.view
     /\ req.method = "POST"
     /\ WithoutReminderDate(req.form)
     /\ (req.endpoint = "crud.update" => req.item_id \in ItemIdsOf(items)))
        => /\ resp.status = "redirect"
           /\ resp.flashes # <<>>
           /\ resp.flashes[1].category = "success"
           /\ \E i \in 1..Len(items) :
                 /\ req.endpoint = "crud.update" => items[i].id = req.item_id
                 /\ items[i].part_number = req.form.part_number
                 /\ items[i].item_name = req.form.item_name
                 /\ items[i].chapter = PyInt(req.form.chapter).val
                 /\ ~Truthy(items[i].reminder_date)

\* The rows whose reminder date is absent or parses as a calendar date.
WithParseableDate(rows) ==
    SelectSeq(rows, LAMBDA r : r.reminder_date = None \/ ~IsExc(Strptime(r.reminder_date)))

\* C18: the list view shows what it would show if the rows whose stored
\* reminder_date does not parse were not there: such a row is skipped, it
\* never makes the notifications fail, and the messages of the other rows
\* are all returned.
C18_UnparseableDatesSkipped ==
    req.endpoint = "crud.parts_list" =>
        resp = legacy_parts_list_view(WithParseableDate(items), req.today)

\* The requests C19 names: list, create, update, delete, search, login and
\* register.
HandledRoutes ==
    CrudEndpoints \cup {"finder.index", "login.login", "login.register"}

\* C19: no request ends in an uncaught exception: each is answered with a
\* redirect or a rendered page, and a request that failed carries a
\* message for the user.
C19_NoHandlerCrashes ==
    req.endpoint \in HandledRoutes => resp.status \in {"redirect", "render"}

\* C20: when a request has been handled, every connection that one of its
\* store operations opened has been closed by that operation, whether the
\* statement succeeded or raised.
C20_ConnectionsReleased ==
    connections = <<>>

\* C22: every stored user row has a non-empty username and a role that is
\* "user" or "admin": a register request with an empty username or with
\* another role stores nothing.
C22_UserRowsWellFormed ==
    \A i \in 1..Len(users) :
        /\ users[i].username # <<>>
        /\ users[i].role \in {USER, ADMIN}

\* A part whose reminder date is the day of the view or the day after.
DueOn(row, today) ==
    /\ row.reminder_date # None
    /\ ~IsExc(Strptime(row.reminder_date))
    /\ Strptime(row.reminder_date).val \in {today, DayAfter(today)}

\* No step marks a notification as shown.
NeverAcknowledged ==
    \A j \in 1..Len(items') :
        items'[j].notification_shown # 0 =>
            \E i \in 1..Len(items) :
                items[i].id = items'[j].id /\ items[i].notification_shown # 0

\* The list view leaves the store as it was.
ListViewReadsOnly ==
    AnsweredNext("crud.parts_list") =>
        <<users, userSeq, items, itemSeq>>' = <<users, userSeq, items, itemSeq>>

\* Every list view shows the notification of every unacknowledged due part.
DuePartsNotified ==
    (AnsweredNext("crud.parts_list") /\ resp'.view) =>
        \A i \in 1..Len(items) :
            (items[i].notification_shown = 0 /\ DueOn(items[i], req'.today)) =>
                /\ resp'.status = "render"
                /\ \E k \in 1..Len(resp'.data) :
                       resp'.data[k] = ExpectedOfRow(items[i], req'.today)[1]

\* C23: no step sets notification_shown, the list view never modifies the
\* store, and so every list view shows the notification of every stored
\* part that is unacknowledged and due on the day of the view or the day
\* after: the same notification on each view, as long as the part is there.
C23_NotificationRepeats ==
    [][NeverAcknowledged /\ ListViewReadsOnly /\ DuePartsNotified]_vars

\* The inputs that fail validation: all four fields sent, and an empty
\* part_number, an empty item_name, a chapter that is no integer, or a
\* reminder_date that is given and is no calendar date.
FailsValidation(form) ==
    /\ DOMAIN form = {"part_number", "item_name", "chapter", "reminder_date"}
    /\ \/ form.part_number = <<>>
       \/ form.item_name = <<>>
       \/ IsExc(PyInt(form.chapter))
       \/ form.reminder_date # <<>> /\ IsExc(Strptime(form.reminder_date))

\* C24: a create or an update whose input fails validation leaves the items
\* table as it was: no row added, no field of any row changed.
C24_FailedValidationNoWrite ==
    [][(/\ Idle
        /\ req'.endpoint \in {"crud.create", "crud.update"}
        /\ req'.method = "POST"
        /\ FailsValidation(req'.form))
            => (items' = items /\ itemSeq' = itemSeq)]_vars

\* An administrator's update of a stored part was refused for its date, its
\* other fields being different from the stored ones.
C24_Witness ==
    /\ Answered("crud.update") /\ resp.view /\ req.method = "POST"
    /\ FailsValidation(req.form)
    /\ IsExc(Strptime(req.form.reminder_date))
    /\ \E i \in 1..Len(items) :
           items[i].id = req.item_id /\ items[i].part_number # req.form.part_number

\* The non-empty substrings of a text.
Substrings(s) ==
    {SubSeq(s, p[1], p[2]) : p \in {q \in (1..Len(s)) \X (1..Len(s)) : q[1] <= q[2]}}

\* search(s) returns the part.
Finds(s, part) ==
    \E k \in 1..Len(search_parts(s, FALSE).val) :
        /\ search_parts(s, FALSE).val[k].part_number = part.part_number
        /\ search_parts(s, FALSE).val[k].item_name = part.item_name

\* C27: once create has stored a part, a search for any non-empty substring
\* of its part_number or of its item_name returns that part.
C27_SearchFindsCreatedPart ==
    [][(AnsweredNext("crud.create") /\ Len(items') = Len(items) + 1)
          => \A s \in Substrings(items'[Len(items')].part_number)
                        \cup Substrings(items'[Len(items')].item_name) :
                 Finds(s, items'[Len(items')])]_vars

\* The guards in front of a route, by blueprint.
GuardOf(endpoint, sess) ==
    IF endpoint \in CrudEndpoints THEN crud_guard(endpoint, sess)
    ELSE IF endpoint = "finder.index" THEN finder_guard(sess)
    ELSE login_guard(endpoint, sess)

GuardedRoutes == LoginEndpoints \cup CrudEndpoints \cup {"finder.index"}

\* The number of redirects a browser follows from a GET of the route until
\* the guards let it pass; more than fuel when they do not within fuel.
RECURSIVE Redirects(_, _, _)
Redirects(endpoint, sess, fuel) ==
    IF ~GuardOf(endpoint, sess).deny THEN 0
    ELSE IF fuel = 0 THEN 1
    ELSE 1 + Redirects(GuardOf(endpoint, sess).redirect, sess, fuel - 1)

\* C28: whatever the session, the redirect of a denial leads to a page the
\* guards allow for that session after at most two redirects from any
\* route, and the redirect login() answers with (itself the first one)
\* needs at most one more.
C28_RedirectsEnd ==
    /\ \A endpoint \in GuardedRoutes : Redirects(endpoint, session, 3) <= 2
    /\ (Answered("login.login") /\ resp.view /\ resp.status = "redirect")
           => 1 + Redirects(resp.target, session, 3) <= 2

\* A session with a role that is neither "user" nor "admin" was refused a
\* route of the catalog and sent to a page that is refused to it as well.
C28_Witness ==
    /\ HasSession(session) /\ session.role \notin {USER, ADMIN}
    /\ req.endpoint \in CrudEndpoints /\ ~resp.view
    /\ resp.target = "login.home_user"
    /\ Redirects(req.endpoint, session, 3) = 2

\* C29: the stored parts have pairwise distinct ids; an update leaves the
\* id of every row as it was; the id of a part that appears is greater than
\* every id given before (none of which exceeds the sequence of the table,
\* which never decreases), so that the id of a deleted part is not given
\* again.
C29_PartIdsUniqueImmutable ==
    [][/\ \A i, j \in 1..Len(items') : items'[i].id = items'[j].id => i = j
       /\ AnsweredNext("crud.update") =>
              /\ Len(items') = Len(items)
              /\ \A i \in 1..Len(items) : items'[i].id = items[i].id
       /\ \A i \in 1..Len(items) : items[i].id <= itemSeq
       /\ itemSeq' >= itemSeq
       /\ \A j \in 1..Len(items') :
              items'[j].id \notin ItemIdsOf(items) =>
                  (items'[j].id > itemSeq /\ items'[j].id <= itemSeq')]_vars

\* A part was created after the part with the largest id had been deleted:
\* it has a new id, not the one that became free.
C29_Witness ==
    /\ Answered("crud.create") /\ resp.view
    /\ resp.target = "crud.parts_list"
    /\ items # <<>>
    /\ items[Len(items)].id = itemSeq
    /\ \A i \in 1..Len(items) : items[i].id # itemSeq - 1
    /\ itemSeq >= 2

\* No two stored aircraft carry the same registration.
RegistrationsDistinct(rows) ==
    \A i, j \in 1..Len(rows) : rows[i].registration = rows[j].registration => i = j

\* A register_aircraft with a stored registration is refused and writes
\* nothing.
DuplicateRegistrationRefused ==
    (/\ AnsweredNext("mro.aircraft") /\ req'.method = "POST"
     /\ "registration" \in DOMAIN req'.form
     /\ ~IsExc(PyInt(FormGet(req'.form, "year_of_manufacture")))
     /\ ~IsExc(OptionalInt(FormGet(req'.form, "passenger_capacity")))
     /\ \E i \in 1..Len(aircraft) : aircraft[i].registration = req'.form.registration)
        => /\ aircraft' = aircraft
           /\ resp'.flashes = <<Flash("Error registering the aircraft.", "danger")>>

\* C30: after any sequence of registrations, updates and deletions of
\* aircraft no two stored aircraft have the same registration, and
\* register_aircraft with a stored registration returns False and leaves
\* the table unchanged.
C30_RegistrationUnique ==
    [][RegistrationsDistinct(aircraft') /\ DuplicateRegistrationRefused]_vars

\* Two registrations are handled at the same time for one username.
SameUsernameRace ==
    /\ \A w \in Workers : calls[w].op = "register"
    /\ calls[1].form.username = calls[2].form.username

\* C21: no two rows of users have the same username, after registrations
\* run one after the other and in every interleaving of the look-up and the
\* insertion of two registrations handled at the same time (of two for one
\* username, at most one inserts).
C21_UsernamesUnique ==
    \A i, j \in 1..Len(users) : users[i].username = users[j].username => i = j

\* Both registrations of one username found no row at their look-up; one
\* inserted its row and the INSERT of the other was refused.
C21_Witness ==
    /\ SameUsernameRace
    /\ \A w \in Workers : calls[w].pc = "done"
    /\ \E w \in Workers : calls[w].ret = "True"
    /\ \E w \in Workers : calls[w].exc = "IntegrityError"
    /\ Len(SelectSeq(users, LAMBDA r : r.username = calls[1].form.username)) = 1

\* The four fields an update sends, as update_part is given them, and the
\* same four fields of a stored row.
FieldsOfForm(form) ==
    <<form.part_number, form.item_name, PyInt(form.chapter).val, form.reminder_date>>
FieldsOfRow(row) ==
    <<row.part_number, row.item_name, row.chapter, row.reminder_date>>

\* Two updates of one stored part, both with valid input, have ended.
UpdateRaceEnded ==
    /\ \A w \in Workers :
           /\ calls[w].op = "update" /\ calls[w].pc = "done"
           /\ ValidCreateInput(calls[w].form)
    /\ calls[1].item_id = calls[2].item_id
    /\ calls[1].item_id \in ItemIdsOf(items)

\* C25: two updates of the same part handled at the same time both report
\* success, whatever the interleaving, and the row then carries the
\* part_number, item_name, chapter and reminder_date of one of the two,
\* never fields of both.
C25_LastWriteWins ==
    UpdateRaceEnded =>
        /\ \A w \in Workers :
               /\ calls[w].resp.status = "redirect"
               /\ calls[w].resp.flashes = <<Flash("Part updated successfully.", "success")>>
        /\ \A i \in 1..Len(items) :
               items[i].id = calls[1].item_id =>
                   FieldsOfRow(items[i])
                       \in {FieldsOfForm(calls[1].form), FieldsOfForm(calls[2].form)}

\* The two updates gave different values for every field, and the row has
\* those of the second worker's.
C25_Witness ==
    /\ UpdateRaceEnded
    /\ \A k \in 1..4 : FieldsOfForm(calls[1].form)[k] # FieldsOfForm(calls[2].form)[k]
    /\ \E i \in 1..Len(items) :
           /\ items[i].id = calls[1].item_id
           /\ FieldsOfRow(items[i]) = FieldsOfForm(calls[2].form)

\* C26: when two registrations of one username are handled at the same time,
\* each ends either in success or in the duplicate-username failure
\* (register_user returns False and a message is queued); no exception
\* leaves register_user.
C26_DuplicateRecoverable ==
    (SameUsernameRace /\ \A w \in Workers : calls[w].pc = "done") =>
        \A w \in Workers :
            /\ calls[w].exc = ""
            /\ \/ calls[w].ret = "True"
               \/ calls[w].ret = "False" /\ calls[w].resp.flashes # <<>>
====
